---- MODULE Spec2Model ----
(***************************************************************************)
(* A model of the vs-docblockr lexer and language parsers.                 *)
(*                                                                         *)
(* Strings are sequences of one-character strings.  The value `undefined`  *)
(* of JavaScript is the one-element tuple Undefined and the boolean `true` *)
(* stored in a token value is TrueVal, so that every token value is a      *)
(* tuple of strings and an absent value differs from the empty string.     *)
(*                                                                         *)
(* The lexer exists in two versions: src/src/lexer.ts ("old") and the      *)
(* Lexer class of src/src/languages/JavaScript.ts ("new").  The variable   *)
(* ver says which one a behaviour runs.                                    *)
(*                                                                         *)
(* The third-party packages character-parser and is-expression are         *)
(* modelled over the characters of Chars: letters, digits, _ $ ( ) [ ] { } *)
(* , space tab newline = ! - : | and the two quotes ' and ".  Value texts   *)
(* hold no reserved words, no backslash, no slash, no dot, no backtick.    *)
(***************************************************************************)
EXTENDS Integers, Sequences, FiniteSets, TLC

VARIABLES
  ver,       \* which Lexer class runs: "old" (lexer.ts) or "new" (JavaScript.ts)
  src,       \* the code string handed to the constructors / to tokenize
  lx,        \* lx[i]: the fields of Lexer instance i (input, tokens, line, column, ended)
  pc,        \* pc[i]: where instance i is: "new", "idle", "running", "returned", "thrown"
  ret,       \* ret[i]: what getTokens of instance i last gave: the token
             \* sequence it returned, or the message of the error it threw
  calls,     \* calls[i]: number of getTokens calls that returned
  consumed,  \* consumed[i]: the prefixes removed by consume, concatenated
  lens,      \* lens[i]: the sum of the lengths passed to consume
  last,      \* last[i]: the recogniser that the latest advance step ran
  steps,     \* steps[i]: the number of advance calls instance i has made
  written,   \* the entries the attribute list of src was written from
  js,        \* the running JavaScript.tokenize call: its pc ("off", "new",
             \* "pass", "done", "thrown"), its arguments code, next and
             \* tokens, the number of passes made and the error raised; the
             \* number of calls made on the parser, whether the accumulator
             \* was passed by the caller, its value when the call began and
             \* the accumulator that the call before left
  cp         \* the running tokenize call of the C parser: its pc ("off",
             \* "new", "class", "function", "parameters", "variable", "end"),
             \* the tokens of its line, the index of the current token, and
             \* st: the Symbols and the flags done, expectName,
             \* expectParameter, expectParameterType

vars ==
  <<ver, src, written, lx, pc, ret, calls, consumed, lens, last, steps, js, cp>>

----------------------------------------------------------------------------
(* Bounds                                                                  *)

MaxLen == 4       \* longest input drawn from the small alphabet
MaxAttrs == 2     \* most entries of a generated attribute list
MaxCalls == 2     \* getTokens calls per Lexer instance
MaxParams == 2    \* most parameters of a generated function declaration
MaxTokenize == 2  \* tokenize calls on one parser instance
MaxTokens == 4    \* longest C line, in tokens, of which every instance is tried

----------------------------------------------------------------------------
(* Characters and strings                                                  *)

Undefined == <<"undefined">>
TrueVal == <<"true">>

Lower == {"a","b","c","d","e","f","g","h","i","j","k","l","m",
          "n","o","p","q","r","s","t","u","v","w","x","y","z"}
Upper == {"A","B","F","X"}
Digit == {"0","1","2","3","4","5","6","7","8","9"}
NL == "\n"
CR == "\r"
TAB == "\t"
BOM == "BOM"

\* \w of a JavaScript regular expression
Word == Lower \cup Upper \cup Digit \cup {"_"}

\* what String.prototype.trim removes
TrimSpace == {" ", NL, TAB, CR, BOM}

Max(S) == CHOOSE x \in S : \A y \in S : y <= x

Min(S) == CHOOSE x \in S : \A y \in S : x <= y

\* s.substr(n): the suffix from 0-based index n, empty when n >= s.length
Substr(s, n) == IF n >= Len(s) THEN <<>> ELSE SubSeq(s, n + 1, Len(s))

\* s.substr(from, count)
Substr2(s, from, count) ==
  IF count <= 0 \/ from >= Len(s) THEN <<>>
  ELSE SubSeq(s, from + 1, Min({Len(s), from + count}))

\* s[i] with a 0-based index; undefined outside the string
CharAt(s, i) == IF i >= 0 /\ i < Len(s) THEN s[i + 1] ELSE "undefined"

RECURSIVE TrimLeft(_)
TrimLeft(s) ==
  IF s # <<>> /\ s[1] \in TrimSpace THEN TrimLeft(Tail(s)) ELSE s

RECURSIVE TrimRight(_)
TrimRight(s) ==
  IF s # <<>> /\ s[Len(s)] \in TrimSpace
  THEN TrimRight(SubSeq(s, 1, Len(s) - 1)) ELSE s

Trim(s) == TrimRight(TrimLeft(s))

\* length of the longest run of characters of S that starts at 1-based index i
RECURSIVE RunLen(_, _, _)
RunLen(s, i, S) ==
  IF i <= Len(s) /\ s[i] \in S THEN 1 + RunLen(s, i + 1, S) ELSE 0

\* number of characters of s that are c
RECURSIVE Count(_, _)
Count(s, c) ==
  IF s = <<>> THEN 0 ELSE (IF s[1] = c THEN 1 ELSE 0) + Count(Tail(s), c)

\* all strings over alphabet A of length at most n
RECURSIVE StringsUpTo(_, _)
StringsUpTo(A, n) ==
  IF n = 0 THEN {<<>>}
  ELSE LET S == StringsUpTo(A, n - 1)
       IN  S \cup {Append(s, c) : s \in {t \in S : Len(t) = n - 1}, c \in A}

----------------------------------------------------------------------------
(* character-parser: the bracket and string state that attrs() consults    *)

BRACKETS == [c \in {"(", "[", "{"} |->
               IF c = "(" THEN ")" ELSE IF c = "[" THEN "]" ELSE "}"]
Closers == {")", "]", "}"}
SQ == "'"
DQ == "\""
Quotes == {SQ, DQ}

\* defaultState(): a stack of the closers and quotes that are still open
defaultState == <<>>

current(st) == IF st = <<>> THEN "" ELSE st[Len(st)]

isString(st) == current(st) \in Quotes

isNesting(st) == st # <<>>

pop(st) == SubSeq(st, 1, Len(st) - 1)

\* parseChar(character, state): ok is FALSE for a mismatched bracket, and
\* for a character that is undefined (its .length cannot be read)
parseChar(c, st) ==
  IF c = "undefined" THEN [ok |-> FALSE, st |-> st]
  ELSE IF isString(st)
    THEN [ok |-> TRUE, st |-> IF c = current(st) THEN pop(st) ELSE st]
  ELSE IF c \in DOMAIN BRACKETS
    THEN [ok |-> TRUE, st |-> Append(st, BRACKETS[c])]
  ELSE IF c \in Closers
    THEN IF current(st) = c THEN [ok |-> TRUE, st |-> pop(st)]
         ELSE [ok |-> FALSE, st |-> st]
  ELSE IF c \in Quotes
    THEN [ok |-> TRUE, st |-> Append(st, c)]
  ELSE [ok |-> TRUE, st |-> st]

\* parseUntil(src, delimiter, {start}): the 0-based index of the first
\* delimiter met outside any nesting, or a failure
RECURSIVE parseUntilFrom(_, _, _, _)
parseUntilFrom(s, delimiter, index, st) ==
  IF index >= Len(s) THEN [ok |-> FALSE, end |-> index]
  ELSE IF ~isNesting(st) /\ CharAt(s, index) = delimiter
    THEN [ok |-> TRUE, end |-> index]
  ELSE LET r == parseChar(CharAt(s, index), st)
       IN  IF r.ok THEN parseUntilFrom(s, delimiter, index + 1, r.st)
           ELSE [ok |-> FALSE, end |-> index]

parseUntil(s, delimiter, start) ==
  parseUntilFrom(s, delimiter, start, defaultState)

\* parse(src): the state after every character, or a failure
RECURSIVE parseFrom(_, _, _)
parseFrom(s, index, st) ==
  IF index >= Len(s) THEN [ok |-> TRUE, st |-> st]
  ELSE LET r == parseChar(CharAt(s, index), st)
       IN  IF r.ok THEN parseFrom(s, index + 1, r.st) ELSE r

parse(s) == parseFrom(s, 0, defaultState)

\* isPunctuator(c): the characters of the table that are in Chars
isPunctuator(c) ==
  c \in {"(", ")", ",", "{", "}", "[", "]", ":", "-", "|", "!", "="}

----------------------------------------------------------------------------
(* is-expression: does acorn parse the text as one expression up to its   *)
(* end?  Tokens first, then a recursive descent over the token kinds.      *)

IdStart == Lower \cup Upper \cup {"_", "$"}
IdPart == IdStart \cup Digit
JsSpace == {" ", NL, TAB}

\* the operator token that starts at 1-based index i of s
jsOp(s, i) ==
  LET c == s[i]
      c1 == IF i + 1 <= Len(s) THEN s[i + 1] ELSE ""
      c2 == IF i + 2 <= Len(s) THEN s[i + 2] ELSE ""
  IN  IF c = "=" THEN (IF c1 = "=" THEN (IF c2 = "=" THEN "===" ELSE "==")
                       ELSE "=")
      ELSE IF c = "!" THEN (IF c1 = "=" THEN (IF c2 = "=" THEN "!==" ELSE "!=")
                            ELSE "!")
      ELSE IF c = "-" THEN (IF c1 = "-" THEN "--"
                            ELSE IF c1 = "=" THEN "-=" ELSE "-")
      ELSE IF c = "|" THEN (IF c1 = "|" THEN "||"
                            ELSE IF c1 = "=" THEN "|=" ELSE "|")
      ELSE c

OpLen(k) ==
  IF k \in {"===", "!=="} THEN 3
  ELSE IF k \in {"==", "!=", "--", "-=", "||", "|="} THEN 2 ELSE 1

\* the tokens of s from index i on; nl says a newline came before the token
RECURSIVE jsLex(_, _, _, _)
jsLex(s, i, nl, acc) ==
  IF i > Len(s) THEN [ok |-> TRUE, toks |-> acc]
  ELSE LET c == s[i] IN
    IF c \in JsSpace THEN jsLex(s, i + 1, nl \/ c = NL, acc)
    ELSE IF c \in IdStart THEN
      jsLex(s, i + RunLen(s, i, IdPart), FALSE,
            Append(acc, [k |-> "id", nl |-> nl]))
    ELSE IF c \in Digit THEN
      LET n == RunLen(s, i, Digit) IN
        IF i + n <= Len(s) /\ s[i + n] \in IdStart
        THEN [ok |-> FALSE, toks |-> acc]
        ELSE jsLex(s, i + n, FALSE, Append(acc, [k |-> "num", nl |-> nl]))
    ELSE IF c \in {SQ, DQ} THEN
      LET n == RunLen(s, i + 1, (IdPart \cup Quotes \cup {" ", TAB, "(", ")",
                   "[", "]", "{", "}", ",", "=", "!", "-", ":", "|"}) \ {c}) IN
        IF i + 1 + n <= Len(s) /\ s[i + 1 + n] = c
        THEN jsLex(s, i + n + 2, FALSE, Append(acc, [k |-> "str", nl |-> nl]))
        ELSE [ok |-> FALSE, toks |-> acc]
    ELSE IF c \in {"(", ")", ",", ":", "=", "!", "-", "|"} THEN
      LET k == jsOp(s, i) IN
        jsLex(s, i + OpLen(k), FALSE, Append(acc, [k |-> k, nl |-> nl]))
    ELSE [ok |-> FALSE, toks |-> acc]

jsTokens(s) == jsLex(s, 1, FALSE, <<>>)

Kind(t, i) == IF i > Len(t) THEN "eof" ELSE t[i].k

BinOps == {"==", "!=", "===", "!==", "-", "|", "||"}
AssignOps == {"=", "-=", "|="}
NoParse == [ok |-> FALSE, pos |-> 0, lv |-> FALSE]

RECURSIVE pExpr(_, _), pExprRest(_, _), pAssign(_, _), pBinRest(_, _),
          pUnary(_, _), pCallTail(_, _, _), pArgs(_, _), pPrimary(_, _)

\* A parse result: ok, the position after the parsed text and lv, which says
\* the parsed text is a valid assignment target.
Parsed(pos, lv) == [ok |-> TRUE, pos |-> pos, lv |-> lv]

\* a parenthesised expression e must be followed by the closing parenthesis
pParen(t, e) ==
  IF e.ok /\ Kind(t, e.pos) = ")" THEN Parsed(e.pos + 1, e.lv) ELSE NoParse

\* Primary: identifier, literal or parenthesised expression
pPrimary(t, i) ==
  IF Kind(t, i) = "id" THEN Parsed(i + 1, TRUE)
  ELSE IF Kind(t, i) \in {"num", "str"} THEN Parsed(i + 1, FALSE)
  ELSE IF Kind(t, i) = "(" THEN pParen(t, pExpr(t, i + 1))
  ELSE NoParse

\* after the argument a of a call: a comma, or the closing parenthesis
pArgsNext(t, a) ==
  IF ~a.ok THEN NoParse
  ELSE IF Kind(t, a.pos) = "," THEN pArgs(t, a.pos + 1)
  ELSE IF Kind(t, a.pos) = ")" THEN Parsed(a.pos + 1, FALSE)
  ELSE NoParse

\* the arguments of a call, i being the token after the opening parenthesis
\* or after a comma; a trailing comma is accepted
pArgs(t, i) ==
  IF Kind(t, i) = ")" THEN Parsed(i + 1, FALSE)
  ELSE pArgsNext(t, pAssign(t, i))

pCallArgs(t, a) == IF a.ok THEN pCallTail(t, a.pos, FALSE) ELSE NoParse

\* the calls that follow a primary expression
pCallTail(t, i, lv) ==
  IF Kind(t, i) = "(" THEN pCallArgs(t, pArgs(t, i + 1)) ELSE Parsed(i, lv)

pCall(t, p) == IF p.ok THEN pCallTail(t, p.pos, p.lv) ELSE NoParse

\* at most one postfix decrement, on the same line, after a target
pPostfix(t, c) ==
  IF c.ok /\ Kind(t, c.pos) = "--" /\ ~t[c.pos].nl
  THEN (IF c.lv THEN Parsed(c.pos + 1, FALSE) ELSE NoParse)
  ELSE c

\* the operand u of prefix operator k; a decrement needs a target
pPrefix(k, u) ==
  IF u.ok /\ (k # "--" \/ u.lv) THEN Parsed(u.pos, FALSE) ELSE NoParse

pUnary(t, i) ==
  IF Kind(t, i) \in {"!", "-", "--"} THEN pPrefix(Kind(t, i), pUnary(t, i + 1))
  ELSE pPostfix(t, pCall(t, pPrimary(t, i)))

pBinNext(t, u) == IF u.ok THEN pBinRest(t, u.pos) ELSE NoParse

\* the operands that follow a binary operator
pBinRest(t, i) ==
  IF Kind(t, i) \in BinOps THEN pBinNext(t, pUnary(t, i + 1))
  ELSE Parsed(i, FALSE)

pBin(t, u) ==
  IF u.ok /\ Kind(t, u.pos) \in BinOps THEN pBinRest(t, u.pos) ELSE u

pAssignRhs(r) == IF r.ok THEN Parsed(r.pos, FALSE) ELSE NoParse

\* an assignment operator after l needs l to be a target
pAssignOp(t, l) ==
  IF l.ok /\ Kind(t, l.pos) \in AssignOps
  THEN (IF l.lv THEN pAssignRhs(pAssign(t, l.pos + 1)) ELSE NoParse)
  ELSE l

pAssign(t, i) == pAssignOp(t, pBin(t, pUnary(t, i)))

pExprNext(t, a) == IF a.ok THEN pExprRest(t, a.pos) ELSE NoParse

pExprRest(t, i) ==
  IF Kind(t, i) = "," THEN pExprNext(t, pAssign(t, i + 1))
  ELSE Parsed(i, FALSE)

pSeq(t, a) ==
  IF a.ok /\ Kind(t, a.pos) = "," THEN pExprRest(t, a.pos) ELSE a

\* Expression: assignments separated by commas
pExpr(t, i) == pSeq(t, pAssign(t, i))

\* the parse e covers every token
isWhole(toks, e) == e.ok /\ e.pos = Len(toks) + 1

isParsed(t) == t.ok /\ isWhole(t.toks, pExpr(t.toks, 1))

\* isExpression(string, {throw: true}) does not throw
isExpression(s) == isParsed(jsTokens(s))

----------------------------------------------------------------------------
(* The Lexer.  A Lexer value is the record of its fields; a recogniser     *)
(* returns hit (it matched), err (the error it threw, empty for none), the  *)
(* Lexer after it and n, the sum of the lengths it passed to consume.      *)

\* a constructor that starts counting columns at 0
NewLexerColumnZero(input) ==
  [input |-> input, tokens |-> <<>>, line |-> 1, column |-> 0, ended |-> FALSE]

\* the fields the constructor sets for an input string
NewLexer(input) ==
  [input |-> input, tokens |-> <<>>, line |-> 1, column |-> 1, ended |-> FALSE]

\* the constructor strips a leading byte order mark and turns each
\* carriage return, with the newline after it if any, into one newline
RECURSIVE ReplaceCR(_)
ReplaceCR(s) ==
  IF s = <<>> THEN <<>>
  ELSE IF s[1] = CR THEN
    <<NL>> \o ReplaceCR(IF Len(s) >= 2 /\ s[2] = NL THEN Substr(s, 2)
                        ELSE Tail(s))
  ELSE <<s[1]>> \o ReplaceCR(Tail(s))

StripBOM(s) == IF s # <<>> /\ s[1] = BOM THEN Tail(s) ELSE s

constructor(code) == NewLexer(ReplaceCR(StripBOM(code)))

NoErr == <<>>

Miss(L) == [hit |-> FALSE, err |-> NoErr, lx |-> L, n |-> 0]
Hit(L, n) == [hit |-> TRUE, err |-> NoErr, lx |-> L, n |-> n]
Throw(L, e, n) == [hit |-> FALSE, err |-> e, lx |-> L, n |-> n]

\* tokenize(type, val): a token at the current line and column
\* a token that always stands at column 1
tokenizeColumnOne(L, type, val) ==
  [type |-> type, line |-> L.line, col |-> 1, val |-> val,
   name |-> Undefined, mustEscape |-> "undefined", buffer |-> "undefined"]

tokenize(L, type, val) ==
  [type |-> type, line |-> L.line, col |-> L.column, val |-> val,
   name |-> Undefined, mustEscape |-> "undefined", buffer |-> "undefined"]

push(L, tok) == [L EXCEPT !.tokens = Append(@, tok)]

\* this.tokens.push(this.tokenize(type, val))
pushNew(L, type, val) == push(L, tokenize(L, type, val))

incrementColumnByOne(L, increment) == [L EXCEPT !.column = @ + 1]

incrementColumn(L, increment) == [L EXCEPT !.column = @ + increment]

consume(L, length) == [L EXCEPT !.input = Substr(@, length)]

\* checkExpression(exp, noThrow): TRUE when the text is an expression
checkExpression(exp) == isExpression(exp)

\* eos(): with no input left, push the eos token and end
\* an eos that also fires when one character is left
eosEarly(L) ==
  IF Len(L.input) > 1 THEN Miss(L)
  ELSE Hit([pushNew(L, "eos", Undefined) EXCEPT !.ended = TRUE], 0)

\* an eos that pushes its token and leaves the ended flag as it is
eosNotEnded(L) ==
  IF Len(L.input) # 0 THEN Miss(L) ELSE Hit(pushNew(L, "eos", Undefined), 0)

eos(L) ==
  IF Len(L.input) # 0 THEN Miss(L)
  ELSE Hit([pushNew(L, "eos", Undefined) EXCEPT !.ended = TRUE], 0)

\* the first and last character of a tag, and the characters between them
TagEdge(v) ==
  IF v = "new" THEN Word \cup {"<", ">", "?", "[", "]", "$"}
  ELSE Lower \cup Upper \cup Digit \cup {"$"}

TagInner(v) == TagEdge(v) \cup {"-", ":"}

\* length of the match of the tag expression at the start of s, 0 for none:
\* an edge character, then the longest run of inner characters that ends
\* with an edge character
tagLength(v, s) ==
  IF s = <<>> \/ s[1] \notin TagEdge(v) THEN 0
  ELSE 1 + Max({0} \cup {k \in 1..RunLen(s, 2, TagInner(v)) :
                            s[1 + k] \in TagEdge(v)})

\* consume the match, push the tag token, move the column past it
tagMatched(L, length) ==
  IF length = 0 THEN Miss(L)
  ELSE Hit(incrementColumn(pushNew(consume(L, length), "tag",
                                   SubSeq(L.input, 1, length)), length),
           length)

tag(v, L) == tagMatched(L, tagLength(v, L.input))

\* [^\n]: every character of the model but the newline
NotNL == IdPart \cup Quotes \cup {" ", TAB, CR, BOM, "(", ")", "[", "]", "{",
           "}", ",", "=", "!", "-", ":", "|", "<", ">", "?", ".", ";",
           "@", "+", "*", "/"}

\* the marker (!?=|-) at the start of s, empty for none
codeFlags(s) ==
  IF Len(s) >= 2 /\ s[1] = "!" /\ s[2] = "=" THEN <<"!", "=">>
  ELSE IF s # <<>> /\ s[1] = "=" THEN <<"=">>
  ELSE IF s # <<>> /\ s[1] = "-" THEN <<"-">>
  ELSE <<>>

\* the match of /^(!?=|-)[ \t]*([^\n]+)/ for a marker of m characters, a
\* rest of the line of rest characters that begins with ws blanks: the
\* blanks give back one character when the line holds nothing else
codeGroups(s, flags, m, rest, ws) ==
  IF m = 0 \/ rest = 0 THEN [ok |-> FALSE]
  ELSE [ok |-> TRUE, flags |-> flags, length |-> m + rest,
        code |-> SubSeq(s, m + (IF ws < rest THEN ws ELSE rest - 1) + 1,
                        m + rest)]

codeMatch(s) ==
  codeGroups(s, codeFlags(s), Len(codeFlags(s)),
             RunLen(s, Len(codeFlags(s)) + 1, NotNL),
             RunLen(s, Len(codeFlags(s)) + 1, {" ", TAB}))

codeBufferFirst(flags) == flags[1] = "="

\* tok.buffer: the marker holds an =
codeBuffer(flags) == flags[1] = "=" \/ (Len(flags) = 2 /\ flags[2] = "=")

\* the code token, made at the column of the marker
codeToken(L, matches) ==
  [tokenize(L, "code", matches.code) EXCEPT
     !.mustEscape = IF matches.flags[1] = "=" THEN "true" ELSE "false",
     !.buffer = IF codeBuffer(matches.flags) THEN "true" ELSE "false"]

\* L1 is the Lexer after consume, L2 after the first incrementColumn
codeChecked(L1, L2, matches) ==
  IF codeBuffer(matches.flags) /\ ~checkExpression(matches.code)
  THEN Throw(L2, <<"Syntax Error">>, matches.length)
  ELSE Hit(incrementColumn(push(L2, codeToken(L1, matches)),
                           Len(matches.code)), matches.length)

codeMatched(L, matches) ==
  IF ~matches.ok THEN Miss(L)
  ELSE codeChecked(consume(L, matches.length),
                   incrementColumn(consume(L, matches.length),
                                   matches.length - Len(matches.code)),
                   matches)

code(L) == codeMatched(L, codeMatch(L.input))

\* scan(regex, type) for a match of the given length and captured value
scan(L, type, length, value) ==
  [tok |-> tokenize(L, type, value),
   lx |-> incrementColumn(consume(L, length),
            length - (IF value = Undefined THEN 0 ELSE Len(value))),
   n |-> length]

\* a text match that runs over the newlines to the end of the input
textMatchAcrossLines(s) ==
  IF Len(s) >= 2 /\ s[1] \in {"|", " "}
  THEN [ok |-> TRUE, length |-> Len(s), value |-> SubSeq(s, 2, Len(s))]
  ELSE IF s # <<>> /\ s[1] = " "
    THEN [ok |-> TRUE, length |-> 1, value |-> <<" ">>]
  ELSE [ok |-> FALSE]

\* a text match that takes the first character of the line only
textMatchOneChar(s) ==
  IF s = <<>> THEN [ok |-> FALSE]
  ELSE IF s[1] \in {"|", " "} /\ RunLen(s, 2, NotNL) >= 1
    THEN [ok |-> TRUE, length |-> 2, value |-> SubSeq(s, 2, 2)]
  ELSE IF s[1] = " "
    THEN [ok |-> TRUE, length |-> 1, value |-> <<" ">>]
  ELSE [ok |-> FALSE]

\* the match of /^(?:\| ?| )([^\n]+)/, else of /^\|?( )/: length and value
textMatch(s) ==
  IF s = <<>> THEN [ok |-> FALSE]
  ELSE IF s[1] = "|" /\ Len(s) >= 2 /\ s[2] = " " /\ RunLen(s, 3, NotNL) >= 1
    THEN [ok |-> TRUE, length |-> 2 + RunLen(s, 3, NotNL),
          value |-> SubSeq(s, 3, 2 + RunLen(s, 3, NotNL))]
  ELSE IF s[1] \in {"|", " "} /\ RunLen(s, 2, NotNL) >= 1
    THEN [ok |-> TRUE, length |-> 1 + RunLen(s, 2, NotNL),
          value |-> SubSeq(s, 2, 1 + RunLen(s, 2, NotNL))]
  ELSE IF s[1] = " "
    THEN [ok |-> TRUE, length |-> 1, value |-> <<" ">>]
  ELSE IF Len(s) >= 2 /\ s[1] = "|" /\ s[2] = " "
    THEN [ok |-> TRUE, length |-> 2, value |-> <<" ">>]
  ELSE [ok |-> FALSE]

\* push a text token at the column after the scan, move past its value
textScanned(sc) ==
  Hit(incrementColumn(pushNew(sc.lx, "text", sc.tok.val), Len(sc.tok.val)),
      sc.n)

textMatched(L, m) ==
  IF ~m.ok THEN Miss(L) ELSE textScanned(scan(L, "text", m.length, m.value))

text(L) == textMatched(L, textMatch(L.input))

colonScanned(sc) == Hit(push(sc.lx, sc.tok), sc.n)

\* colon(): the match of /^: +/
colon(L) ==
  IF L.input # <<>> /\ L.input[1] = ":" /\ RunLen(L.input, 2, {" "}) >= 1
  THEN colonScanned(scan(L, ":", 1 + RunLen(L.input, 2, {" "}), Undefined))
  ELSE Miss(L)

\* fail(): throws; the message holds the first 5 characters of the input
fail(L) == Throw(L, <<"Unexpected text">> \o Substr2(L.input, 0, 5), 0)

----------------------------------------------------------------------------
(* attrs(): the attribute list                                             *)

whitespaceRe == {" ", NL, TAB}

\* 0-based index of the first character at or after x that is no whitespace,
\* or the length of the string when there is none
RECURSIVE firstNonSpace(_, _)
firstNonSpace(attrStr, x) ==
  IF x < Len(attrStr) /\ CharAt(attrStr, x) \in whitespaceRe
  THEN firstNonSpace(attrStr, x + 1) ELSE x

\* the remainder of isEndOfAttribute(j) once the key has started and j is
\* inside the string: c is the character at j, more says a character that
\* is no whitespace follows, and cx is that character
endOfAttribute(S, c, more, cx) ==
  IF S.loc = "key" THEN
    IF c \in whitespaceRe /\ more THEN cx \notin {"=", "!", ","} ELSE c = ","
  ELSE IF S.loc = "value" THEN
    IF isNesting(S.state) \/ isString(S.state) THEN FALSE
    ELSE IF ~checkExpression(S.val) THEN FALSE
    ELSE IF c \in whitespaceRe /\ more THEN ~isPunctuator(cx) \/ cx \in Quotes
    ELSE c = ","
  ELSE FALSE

\* isEndOfAttribute(j) for the loop state S
isEndOfAttribute(S, attrStr, j) ==
  IF Trim(S.key) = <<>> THEN FALSE
  ELSE IF j = Len(attrStr) THEN TRUE
  ELSE endOfAttribute(S, CharAt(attrStr, j),
                      firstNonSpace(attrStr, j) < Len(attrStr),
                      CharAt(attrStr, firstNonSpace(attrStr, j)))

\* key.replace(/^['"]|['"]$/g, '')
stripLast(k) ==
  IF k # <<>> /\ k[Len(k)] \in Quotes THEN SubSeq(k, 1, Len(k) - 1) ELSE k

stripQuotes(key) ==
  stripLast(IF key # <<>> /\ key[1] \in Quotes THEN Tail(key) ELSE key)

\* a character appended to a string; undefined appends the word undefined
plusChar(str, c) ==
  IF c = "undefined" THEN str \o <<"u", "n", "d", "e", "f", "i", "n", "e", "d">>
  ELSE Append(str, c)

\* the value an attribute token gets for the trimmed value text
attrVal(v, val) == IF v = "old" /\ val = <<>> THEN TrueVal ELSE val

\* an attribute token whose value keeps its surrounding whitespace
attrTokenUntrimmed(v, S) ==
  [tokenize(S.lx, "attribute", attrVal(v, S.val)) EXCEPT
     !.name = stripQuotes(Trim(S.key)),
     !.col = S.columnBeginAttr,
     !.mustEscape = IF S.escapedAttr THEN "true" ELSE "false"]

\* the attribute token for the key and value read so far
attrToken(v, S) ==
  [tokenize(S.lx, "attribute", attrVal(v, Trim(S.val))) EXCEPT
     !.name = stripQuotes(Trim(S.key)),
     !.col = S.columnBeginAttr,
     !.mustEscape = IF S.escapedAttr THEN "true" ELSE "false"]

\* the end-of-attribute branch of the loop body: validate the value, push
\* the attribute token and go back to reading a key
endAttribute(v, S) ==
  IF Trim(S.val) # <<>> /\ ~checkExpression(S.val)
  THEN [S EXCEPT !.err = <<"Syntax Error">>]
  ELSE [S EXCEPT !.lx = [push(S.lx, attrToken(v, S)) EXCEPT !.line = S.line],
                 !.key = <<>>, !.val = <<>>, !.loc = "key",
                 !.escapedAttr = FALSE]

startValueUnchecked(S, attrStr) ==
  [S EXCEPT !.loc = "value", !.columnBeginVal = S.lx.column + 1,
            !.state = defaultState]

\* after ! or = in a key: the character at S.i must be =, the value begins
startValue(S, attrStr) ==
  IF CharAt(attrStr, S.i) # "="
  THEN [S EXCEPT !.err = <<"Unexpected character">>]
  ELSE [S EXCEPT !.loc = "value", !.columnBeginVal = S.lx.column + 1,
                 !.state = defaultState]

\* a character of a value: r is parseChar of it
valueChar(S, c, r) ==
  IF ~r.ok THEN [S EXCEPT !.err = <<"character-parser">>]
  ELSE [S EXCEPT !.state = r.st, !.val = plusChar(@, c)]

\* the switch of the loop body, for the character c at index S.i
attrSwitch(S, attrStr, c) ==
  IF S.loc = "key-char" THEN
    IF c = S.quote THEN
      IF S.i + 1 < Len(attrStr) /\
         CharAt(attrStr, S.i + 1) \notin {" ", ",", "!", "=", NL, TAB}
      THEN [S EXCEPT !.loc = "key", !.err = <<"Unexpected character">>]
      ELSE [S EXCEPT !.loc = "key"]
    ELSE [S EXCEPT !.key = plusChar(@, c)]
  ELSE IF S.loc = "key" THEN
    IF S.key = <<>> /\ c \in Quotes THEN
      [S EXCEPT !.loc = "key-char", !.quote = c]
    ELSE IF c = "!" THEN
      startValue([S EXCEPT !.lx = incrementColumn(@, 1), !.i = @ + 1,
                           !.escapedAttr = FALSE], attrStr)
    ELSE IF c = "=" THEN
      startValue([S EXCEPT !.escapedAttr = TRUE], attrStr)
    ELSE [S EXCEPT !.key = plusChar(@, c)]
  ELSE valueChar(S, c, parseChar(c, S.state))

attrChar(S, attrStr) == attrSwitch(S, attrStr, CharAt(attrStr, S.i))

\* a newline that counts the line and lets the column run on
attrLineColumnRuns(S, c) ==
  IF c = NL THEN
    [S EXCEPT !.line = @ + 1,
              !.lx = [@ EXCEPT !.column = @ + 1,
                               !.line = IF Trim(S.key) = <<>>
                                        THEN S.line + 1 ELSE @]]
  ELSE IF c # "undefined" THEN [S EXCEPT !.lx = incrementColumn(@, 1)]
  ELSE S

\* the newline bookkeeping that ends the loop body, c being the character
\* at index S.i
attrLine(S, c) ==
  IF c = NL THEN
    [S EXCEPT !.line = @ + 1,
              !.lx = [@ EXCEPT !.column = 1,
                               !.line = IF Trim(S.key) = <<>>
                                        THEN S.line + 1 ELSE @]]
  ELSE IF c # "undefined" THEN [S EXCEPT !.lx = incrementColumn(@, 1)]
  ELSE S

attrNewline(S, attrStr) == attrLine(S, CharAt(attrStr, S.i))

\* the loop body from the end-of-attribute test on, the column where the
\* attribute begins being set
attrBody(v, S, attrStr) ==
  IF isEndOfAttribute(S, attrStr, S.i) THEN endAttribute(v, S)
  ELSE attrChar(S, attrStr)

\* isEndOfAttribute moves columnBeginAttr while the key has not started
attrBegin(S) ==
  IF Trim(S.key) = <<>> THEN [S EXCEPT !.columnBeginAttr = S.lx.column] ELSE S

\* the end of the loop body and i++
attrNext(S, attrStr) ==
  IF S.err # NoErr THEN S ELSE [attrNewline(S, attrStr) EXCEPT !.i = @ + 1]

\* for (let i = 0; i <= attrStr.length; i++) { ... }
RECURSIVE attrLoop(_, _, _)
attrLoop(v, S, attrStr) ==
  IF S.i > Len(attrStr) \/ S.err # NoErr THEN S
  ELSE attrLoop(v, attrNext(attrBody(v, attrBegin(S), attrStr), attrStr),
                attrStr)

\* the loop variables before the first character
attrStart(L, startingLine) ==
  [i |-> 0, key |-> <<>>, val |-> <<>>, loc |-> "key", quote |-> "",
   escapedAttr |-> TRUE, state |-> defaultState, line |-> startingLine,
   columnBeginAttr |-> L.column, columnBeginVal |-> 0, lx |-> L,
   err |-> NoErr]

\* bracketExpression(): the range up to the bracket that closes input[0]
\* a bracketExpression that takes the end of the string for the bracket
bracketExpressionToEnd(L) ==
  IF CharAt(L.input, 0) \notin DOMAIN BRACKETS THEN [ok |-> FALSE, end |-> 0]
  ELSE [parseUntil(L.input, BRACKETS[CharAt(L.input, 0)], 1) EXCEPT !.ok = TRUE]

bracketExpression(L) ==
  IF CharAt(L.input, 0) \notin DOMAIN BRACKETS THEN [ok |-> FALSE, end |-> 0]
  ELSE parseUntil(L.input, BRACKETS[CharAt(L.input, 0)], 1)

\* checkNesting(exp) does not throw
notNesting(p) == p.ok /\ ~isNesting(p.st)

checkNesting(exp) == notNesting(parse(exp))

\* an end of the list that pushes no token
attrsEndSilent(S, startingLine, attrStr, index) ==
  IF S.err # NoErr THEN Throw(S.lx, S.err, index + 1)
  ELSE Hit(incrementColumn(
             [S.lx EXCEPT !.line = startingLine + Count(attrStr, NL)], 1),
           index + 1)

\* after the loop: set the line, push end-attributes, move one column
attrsEnd(S, startingLine, attrStr, index) ==
  IF S.err # NoErr THEN Throw(S.lx, S.err, index + 1)
  ELSE Hit(incrementColumn(
             pushNew([S.lx EXCEPT !.line = startingLine + Count(attrStr, NL)],
                     "end-attributes", Undefined), 1),
           index + 1)

\* L2 is the Lexer after incrementColumn(1); check the nesting, consume the
\* list and run the loop
attrsList(v, L2, startingLine, attrStr, index) ==
  IF ~checkNesting(attrStr) THEN Throw(L2, <<"Nesting must match">>, 0)
  ELSE attrsEnd(attrLoop(v, attrStart(consume(L2, index + 1), startingLine),
                         attrStr),
                startingLine, attrStr, index)

\* L1 is the Lexer after the start-attributes token is pushed
attrsRange(v, L1, range) ==
  IF ~range.ok THEN Throw(L1, <<"The end of the string was reached">>, 0)
  ELSE attrsList(v, incrementColumn(L1, 1), L1.line,
                 Substr2(L1.input, 1, range.end - 1), range.end)

attrs(v, L) ==
  IF CharAt(L.input, 0) # "(" THEN Miss(L)
  ELSE attrsRange(v, pushNew(L, "start-attributes", Undefined),
                  bracketExpression(L))

\* advance(): the first recogniser that matches, in the order of the code
advanceOrderNoText(v) ==
  IF v = "new" THEN <<"eos", "tag", "code", "attrs", "colon", "fail">>
  ELSE <<"eos", "tag", "code", "attrs", "fail">>

advanceOrder(v) ==
  IF v = "new" THEN <<"eos", "tag", "code", "attrs", "text", "colon", "fail">>
  ELSE <<"eos", "tag", "code", "attrs", "text", "fail">>

call(v, func, L) ==
  IF func = "eos" THEN eos(L)
  ELSE IF func = "tag" THEN tag(v, L)
  ELSE IF func = "code" THEN code(L)
  ELSE IF func = "attrs" THEN attrs(v, L)
  ELSE IF func = "text" THEN text(L)
  ELSE IF func = "colon" THEN colon(L)
  ELSE fail(L)

\* the recogniser that decides the step is the first that matches or throws
RECURSIVE advanceFrom(_, _, _)

\* r is the result of recogniser k of the order
advanceTry(v, L, k, r) ==
  IF r.hit \/ r.err # NoErr \/ k = Len(advanceOrder(v))
  THEN [res |-> r, func |-> advanceOrder(v)[k]]
  ELSE advanceFrom(v, L, k + 1)

advanceFrom(v, L, k) == advanceTry(v, L, k, call(v, advanceOrder(v)[k], L))

advance(v, L) == advanceFrom(v, L, 1)

----------------------------------------------------------------------------
(* Parser: the helpers that JavaScript.tokenize inherits                   *)

\* getTokens run to its end on a fresh Lexer: r is the result of one advance
RECURSIVE lexLoop(_, _)

lexStep(v, r) ==
  IF r.err # NoErr THEN [err |-> r.err, tokens |-> <<>>] ELSE lexLoop(v, r.lx)

lexLoop(v, L) ==
  IF L.ended THEN [err |-> NoErr, tokens |-> L.tokens]
  ELSE lexStep(v, advance(v, L).res)

\* Parser.lexer(code): new Lexer(code).getTokens()
lexer(v, c) == lexLoop(v, constructor(c))

\* the positions of the tokens of the given type
typeIndexes(type, lexed) == {k \in 1..Len(lexed) : lexed[k].type = type}

\* Parser.findByType(type, lexed): the matching token, or null (0 here)
findByType(type, lexed) ==
  IF typeIndexes(type, lexed) = {} THEN 0 ELSE Max(typeIndexes(type, lexed))

----------------------------------------------------------------------------
(* JavaScript: the grammar and tokenize                                    *)

FunctionKw == <<"f", "u", "n", "c", "t", "i", "o", "n">>
ClassKw == <<"c", "l", "a", "s", "s">>
PrototypeKw == <<"p", "r", "o", "t", "o", "t", "y", "p", "e">>

\* the characters that the identifier pattern [a-zA-Z_$0-9] accepts
Identifier == Lower \cup Upper \cup Digit \cup {"_", "$"}

\* the grammer table handed to super(); the identifier entry is a pattern
\* source, which no token value equals
grammer ==
  [function |-> FunctionKw, class |-> ClassKw, identifier |-> <<"[identifier]">>]

\* Parser.matchesGrammer(name, type)
matchesGrammer(name, type) ==
  IF type \in DOMAIN grammer THEN grammer[type] = name
  ELSE \E g \in DOMAIN grammer : grammer[g] = name

\* what . of a regular expression matches: anything but a line terminator
Dot == {NL, CR}

\* (identifier+).prototype.(identifier+) with group 1 ending at index e:
\* the pattern is built from a string literal, where \. is a plain dot
protoAt(c, e) ==
  /\ e + 12 <= Len(c)
  /\ c[e] \in Identifier
  /\ c[e + 1] \notin Dot
  /\ SubSeq(c, e + 2, e + 10) = PrototypeKw
  /\ c[e + 11] \notin Dot
  /\ c[e + 12] \in Identifier

protoEnds(c) == {e \in 1..Len(c) : protoAt(c, e)}

\* first index of the run of identifier characters that ends at index e
RECURSIVE runStart(_, _)
runStart(c, e) ==
  IF e > 1 /\ c[e - 1] \in Identifier THEN runStart(c, e - 1) ELSE e

\* regex.test(code)
protoTest(c) == protoEnds(c) # {}

\* end of group 1 in regex.exec(code): the leftmost match, group 1 greedy
protoEnd(c) ==
  Max({e \in protoEnds(c) : runStart(c, e) = runStart(c, Min(protoEnds(c)))})

protoGroup2(c, e) == SubSeq(c, e + 12, e + 11 + RunLen(c, e + 12, Identifier))

\* regex.exec(code)[2]
protoName(c) == protoGroup2(c, protoEnd(c))

\* the positions where s holds "= "
assignIndexes(s) == {k \in 1..(Len(s) - 1) : s[k] = "=" /\ s[k + 1] = " "}

cutAt(s, k) == SubSeq(s, 1, k - 1) \o SubSeq(s, k + 2, Len(s))

\* s.replace('= ', ''): the first occurrence is removed
replaceAssign(s) ==
  IF assignIndexes(s) = {} THEN s ELSE cutAt(s, Min(assignIndexes(s)))

\* the default value of the tokens parameter
NewSymbols == [name |-> <<>>, type |-> <<>>, params |-> <<>>, present |-> TRUE]

\* the Param objects pushed by the loop over the lexed tokens
RECURSIVE attributeParams(_)
attributeParams(lexed) ==
  IF lexed = <<>> THEN <<>>
  ELSE (IF Head(lexed).type = "attribute"
        THEN <<[name |-> Head(lexed).name, val |-> Head(lexed).val]>>
        ELSE <<>>) \o attributeParams(Tail(lexed))

\* how one pass of tokenize ends: out is "return", "recurse" (tokenize is
\* called again with code and next), "lexerror" (this.lexer threw) or
\* "typeerror" (current is null where it is dereferenced); tokens is the
\* accumulator as the pass leaves it
PassOut(out, tokens, c, next) ==
  [out |-> out, tokens |-> tokens, code |-> c, next |-> next]

passEndSameCode(c, next, tokens, lexed, cur) ==
  IF cur = 0 THEN PassOut("typeerror", tokens, c, next)
  ELSE IF /\ lexed[cur].col < lexed[findByType("eos", lexed)].col
          /\ CharAt(lexed[cur].val, 0) \in Identifier
       THEN PassOut("recurse", tokens, c, next)
       ELSE PassOut("return", tokens, c, next)

\* if (current.col < eos.col) ... this.tokenize(current.val, next, tokens)
passEnd(c, next, tokens, lexed, cur) ==
  IF cur = 0 THEN PassOut("typeerror", tokens, c, next)
  ELSE IF /\ lexed[cur].col < lexed[findByType("eos", lexed)].col
          /\ CharAt(lexed[cur].val, 0) \in Identifier
       THEN PassOut("recurse", tokens, lexed[cur].val, next)
       ELSE PassOut("return", tokens, c, next)

\* if (this.findByType('start-attributes', lexed)) ... tokens.params.push
passParams(c, next, tokens, lexed, cur) ==
  passEnd(c, next,
          IF findByType("start-attributes", lexed) # 0
          THEN [tokens EXCEPT !.params = @ \o attributeParams(lexed)]
          ELSE tokens,
          lexed, cur)

\* the prototype branch: type and name are set, then current.val is cleaned
passPrototype(c, next, tokens, lexed, cur) ==
  IF cur = 0 THEN PassOut("typeerror", tokens, c, next)
  ELSE passParams(c, next, tokens,
                  [lexed EXCEPT ![cur].val = replaceAssign(@)], cur)

\* the if / else if chain on the first token, the code and next
passBranch(c, next, tokens, lexed, cur) ==
  IF \/ matchesGrammer(lexed[1].val, "function")
     \/ matchesGrammer(lexed[1].val, "class")
  THEN passParams(c, lexed[1].val, [tokens EXCEPT !.type = lexed[1].val],
                  lexed, cur)
  ELSE IF protoTest(c)
  THEN passPrototype(c, next,
                     [tokens EXCEPT !.type = grammer.function,
                                    !.name = protoName(c)],
                     lexed, cur)
  ELSE IF matchesGrammer(next, "undefined")
  THEN passParams(c, next, [tokens EXCEPT !.name = lexed[1].val], lexed, cur)
  ELSE passParams(c, next, tokens, lexed, cur)

\* r is what this.lexer(code) gave
passLexed(c, next, tokens, r) ==
  IF r.err # NoErr THEN PassOut("lexerror", tokens, c, next)
  ELSE passBranch(c, next, tokens, r.tokens, findByType("text", r.tokens))

\* one activation of JavaScript.tokenize(code, next, tokens), up to its
\* recursive call or its return
tokenizePass(v, c, next, tokens) == passLexed(c, next, tokens, lexer(v, c))

\* the whole call: the passes up to the one that returns or throws
RECURSIVE tokenizeRun(_, _, _, _)

tokenizeNext(v, r) ==
  IF r.out = "recurse" THEN tokenizeRun(v, r.code, r.next, r.tokens) ELSE r

tokenizeRun(v, c, next, tokens) ==
  tokenizeNext(v, tokenizePass(v, c, next, tokens))

----------------------------------------------------------------------------
(* C: the grammar and the recognition procedures.  A token is the label   *)
(* of its type and its value; a punctuation token has no value.            *)

Struct == <<"s", "t", "r", "u", "c", "t">>
Typedef == <<"t", "y", "p", "e", "d", "e", "f">>
IntKw == <<"i", "n", "t">>
CharKw == <<"c", "h", "a", "r">>

\* the grammar table handed to super()
grammar ==
  [class |-> <<Struct, Typedef>>,
   function |-> <<>>,
   modifiers |-> <<<<"u", "n", "s", "i", "g", "n", "e", "d">>,
                   <<"s", "i", "g", "n", "e", "d">>,
                   Struct,
                   <<"s", "t", "a", "t", "i", "c">>,
                   <<"i", "n", "l", "i", "n", "e">>,
                   <<"c", "o", "n", "s", "t">>,
                   <<"a", "u", "t", "o">>,
                   <<"e", "x", "t", "e", "r", "n">>,
                   <<"c", "o", "m", "p", "l", "e", "x">>>>,
   types |-> <<CharKw,
               <<"d", "o", "u", "b", "l", "e">>,
               <<"f", "l", "o", "a", "t">>,
               IntKw,
               <<"l", "o", "n", "g">>,
               <<"s", "h", "o", "r", "t">>,
               <<"v", "o", "i", "d">>>>,
   variables |-> <<>>]

\* the identifier pattern ^[a-zA-Z_][a-zA-Z0-9_]*$
identifier(v) ==
  /\ v # <<>>
  /\ v[1] \in Lower \cup Upper \cup {"_"}
  /\ \A k \in 2..Len(v) : v[k] \in Lower \cup Upper \cup Digit \cup {"_"}

\* Grammar.is(value, category): membership of the list, the pattern for
\* identifier, false for a category that is not declared
is(v, category) ==
  IF category = "identifier" THEN v # Undefined /\ identifier(v)
  ELSE IF category \in DOMAIN grammar
    THEN \E k \in 1..Len(grammar[category]) : grammar[category][k] = v
  ELSE FALSE

\* Parser.isName(value)
isName(v) == is(v, "identifier")

\* a token value that an if accepts: neither undefined nor the empty string
truthy(v) == v # Undefined /\ v # <<>>

\* new Symbols()
CSymbols ==
  [name |-> <<>>, type |-> "unset", varType |-> <<>>, params |-> <<>>,
   returnType |-> Undefined]

\* the Symbols of a call and the flags of the parser at its start
CState ==
  [symbols |-> CSymbols, done |-> FALSE, expectName |-> FALSE,
   expectParameter |-> FALSE, expectParameterType |-> FALSE]

parseClassKeepsGoing(token, st) ==
  IF is(token.value, "class")
  THEN [st EXCEPT !.symbols.name = Struct, !.symbols.type = "Class"]
  ELSE st

parseClass(token, st) ==
  IF is(token.value, "class")
  THEN [st EXCEPT !.symbols.name = Struct, !.symbols.type = "Class",
                  !.done = TRUE]
  ELSE st

parseFunction(token, st) ==
  IF token.label = "("
  THEN [st EXCEPT !.symbols.type = "Function",
                  !.symbols.returnType = st.symbols.varType,
                  !.expectParameter = TRUE]
  ELSE st

\* symbols.addParameter({name: '', type: token.value})
paramAdded(token, st) ==
  IF truthy(token.value) /\ is(token.value, "types") /\ st.expectParameter
  THEN [st EXCEPT !.expectParameterType = TRUE,
                  !.symbols.params =
                     Append(@, [name |-> <<>>, type |-> token.value])]
  ELSE st

\* lastParam.name = token.value
paramNamed(token, st) ==
  IF st.expectParameterType /\ truthy(token.value) /\ st.symbols.params # <<>>
  THEN [st EXCEPT !.symbols.params[Len(st.symbols.params)].name = token.value]
  ELSE st

paramClosedStaysOpen(token, st) == st

paramClosed(token, st) ==
  IF token.label = ")" THEN [st EXCEPT !.expectParameter = FALSE] ELSE st

parseParameters(token, st) ==
  IF st.symbols.type = "Function" /\ st.expectParameter
  THEN paramClosed(token, paramNamed(token, paramAdded(token, st)))
  ELSE st

parseVariableRenames(token, st) ==
  IF is(token.value, "types") /\ st.symbols.type = "unset"
  THEN [st EXCEPT !.symbols.varType = token.value,
                  !.symbols.type = "Variable",
                  !.expectName = TRUE]
  ELSE IF isName(token.value)
  THEN [st EXCEPT !.symbols.name = token.value, !.expectName = FALSE]
  ELSE st

parseVariable(token, st) ==
  IF is(token.value, "types") /\ st.symbols.type = "unset"
  THEN [st EXCEPT !.symbols.varType = token.value,
                  !.symbols.type = "Variable",
                  !.expectName = TRUE]
  ELSE IF st.expectName /\ isName(token.value)
  THEN [st EXCEPT !.symbols.name = token.value, !.expectName = FALSE]
  ELSE st

\* no tokenize call is made on a C parser
CpOff == [pc |-> "off", line |-> <<>>, i |-> 0, st |-> CState]

----------------------------------------------------------------------------
(* The inputs                                                              *)

\* the small alphabets whose strings are lexed exhaustively
SigmaAttr == {"a", "(", ")", ",", " ", "=", "!", NL}
SigmaLine == {"a", " ", ":", "-", "|", NL}

ShortInputs == StringsUpTo(SigmaAttr, MaxLen) \cup StringsUpTo(SigmaLine, MaxLen)

\* inputs that the constructor rewrites: a byte order mark, carriage returns
RawInputs ==
  {<<BOM, "a">>,
   <<BOM, "f", "(", "a", ")">>,
   <<"f", "(", "a", CR, NL, "a", ")">>,
   <<"f", "(", "a", ",", CR, "a", ")">>}

\* attribute lists that run over several lines
NewlineInputs ==
  {<<"f", "(", "a", NL, "b", ")">>,
   <<"f", "(", "a", ",", NL, "b", ")">>,
   <<"f", "(", NL, "a", "=", "1", NL, ",", "b", ")">>,
   <<"f", "(", "a", "=", "1", NL, NL, " ", "b", ")">>,
   <<"f", "(", "a", NL, "=", "1", ",", NL, NL, "b", ")">>,
   <<"f", "(", "a", "!", "=", NL, "1", " ", "b", NL, ")">>}

\* a tag followed by two attribute lists
TwoListInputs ==
  {<<"f", "(", "a", ")", "(", "b", ",", " ", "c", ")">>,
   <<"f", "(", "a", "=", "(", "b", ")", ")", "(", ")">>}

\* a tag followed by a list in which a key holds a ! that no = follows
BangInputs ==
  {<<"f", "(", "a", ",", " ", "b", "!", ")">>,
   <<"f", "(", "a", " ", "b", "!", "c", ",", " ", "d", ")">>,
   <<"f", "(", "a", ",", "b", " ", "!", " ", "=", "1", ")">>,
   <<"f", "(", "a", ",", NL, "!", "b", ")">>}

\* the entries of the generated attribute lists: a name, then nothing, or
\* one of = and != with a value, with or without spaces around the value
Names == {<<"a">>, <<"$", "b">>}
Values == {<<"1">>, <<"a", "(", "b", ")">>}
Ops == {<<"=">>, <<"!", "=">>}
Pads == {<<>>, <<" ">>}

Entry(n, op, pad, v) == n \o op \o pad \o v \o pad

Entries ==
  Names \cup {Entry(n, op, pad, v) : n \in Names, op \in Ops, pad \in Pads, v \in Values}

RECURSIVE Join(_, _)
Join(es, sep) ==
  IF es = <<>> THEN <<>>
  ELSE IF Len(es) = 1 THEN es[1]
  ELSE es[1] \o sep \o Join(Tail(es), sep)

EntryLists == UNION {[1..n -> Entries] : n \in 0..MaxAttrs}

\* an attribute list after a tag, entries separated by a comma and a space
AttrInput(es) == <<"f", "(">> \o Join(es, <<",", " ">>) \o <<")">>

AttrInputs == {AttrInput(es) : es \in EntryLists}

\* function <name>(<p1>, ..., <pn>) {
Decl(name, ps) ==
  FunctionKw \o <<" ">> \o name \o <<"(">> \o Join(ps, <<",", " ">>)
    \o <<")", " ", "{">>

JsNames ==
  {<<"f", "o", "o">>, <<"a">>, <<"$", "b">>, <<"_", "x">>,
   <<"i", "s", "p", "r", "o", "t", "o", "t", "y", "p", "e", "o", "k">>}
JsParams == {<<"a">>, <<"b", "1">>, <<"$", "c">>}
ParamLists == UNION {[1..n -> JsParams] : n \in 0..MaxParams}

Decls == {Decl(n, ps) : n \in JsNames, ps \in ParamLists}

\* lines of other shapes: a bare keyword, a class, a prototype assignment,
\* a call
OtherLines ==
  {FunctionKw,
   ClassKw \o <<" ", "F", "o", "o", " ", "e", "x", "t", "e", "n", "d", "s",
                " ", "B", "a", "r", " ", "{">>,
   <<"F", "o", "o", ".">> \o PrototypeKw \o <<".", "b", "a", "r", " ", "=", " ">>
     \o FunctionKw \o <<"(", "a", ")", " ", "{">>,
   <<"f", "o", "o", "(", ")">>,
   FunctionKw \o <<" ", "a", ".", "b", "(", "a", ")", " ", "{">>}

\* every short line over a few characters: names, blanks, pipes, brackets
JsShortLines == StringsUpTo({"a", " ", "|", "(", ")"}, MaxLen)

JsInputs == Decls \cup OtherLines \cup JsShortLines

\* the lines of the later calls on the same parser
AgainInputs == OtherLines \cup {Decl(<<"a">>, <<>>)}

\* the accumulators a caller passes: an empty one, and one that holds the
\* declaration read from the lines before
Accumulators ==
  {NewSymbols,
   [name |-> <<"f", "o", "o">>, type |-> FunctionKw,
    params |-> <<[name |-> <<"a">>, val |-> <<>>]>>, present |-> TRUE]}

\* the tokens of C lines
CWord(w) == [label |-> "name", value |-> w]
CPunct(l) == [label |-> l, value |-> Undefined]

CVocab ==
  {CWord(Struct), CWord(IntKw), CWord(CharKw), CWord(<<"f">>), CWord(<<"a">>),
   CPunct("("), CPunct(")"), CPunct(",")}

\* struct Foo {    int f(int a, char)    int f(struct bar b)
CLongLines ==
  {<<CWord(Struct), CWord(<<"F", "o", "o">>), CPunct("{")>>,
   <<CWord(IntKw), CWord(<<"f">>), CPunct("("), CWord(IntKw), CWord(<<"a">>),
     CPunct(","), CWord(CharKw), CPunct(")")>>,
   <<CWord(IntKw), CWord(<<"f">>), CPunct("("), CWord(Struct),
     CWord(<<"b", "a", "r">>), CWord(<<"b">>), CPunct(")")>>}

CLines == StringsUpTo(CVocab, MaxTokens) \cup CLongLines

----------------------------------------------------------------------------
(* The Lexer as a state machine: constructor, getTokens and the steps of   *)
(* its loop                                                                *)

Instances == DOMAIN pc

NoLexer == NewLexer(<<>>)

InitWith(ids, lists, codes) ==
  /\ ver \in {"old", "new"}
  /\ \/ written \in lists /\ src = AttrInput(written)
     \/ written = <<>> /\ src \in codes
  /\ lx = [i \in ids |-> NoLexer]
  /\ pc = [i \in ids |-> "new"]
  /\ ret = [i \in ids |-> <<>>]
  /\ calls = [i \in ids |-> 0]
  /\ consumed = [i \in ids |-> <<>>]
  /\ lens = [i \in ids |-> 0]
  /\ last = [i \in ids |-> "none"]
  /\ steps = [i \in ids |-> 0]

\* no tokenize call is made in the behaviours of the Lexer alone
JsOff ==
  [pc |-> "off", code |-> <<>>, next |-> <<>>, tokens |-> NewSymbols,
   passes |-> 0, error |-> "none", calls |-> 0, explicit |-> FALSE,
   before |-> NewSymbols, earlier |-> NewSymbols]

Init ==
  /\ InitWith({1}, EntryLists, ShortInputs \cup RawInputs \cup NewlineInputs
                \cup TwoListInputs \cup BangInputs)
  /\ js = JsOff
  /\ cp = CpOff

\* a constructor whose tokens array is the one of the instance before
ConstructShared(i) ==
  /\ pc[i] = "new"
  /\ \A j \in Instances : j < i => pc[j] \in {"returned", "thrown"}
  /\ lx' = [lx EXCEPT ![i] = [constructor(src) EXCEPT
                                !.tokens = IF i > 1 THEN lx[i - 1].tokens ELSE @]]
  /\ pc' = [pc EXCEPT ![i] = "idle"]
  /\ UNCHANGED <<ver, src, written, ret, calls, consumed, lens, last, steps, js, cp>>

\* new Lexer(src); a later instance is built once the earlier one is done
Construct(i) ==
  /\ pc[i] = "new"
  /\ \A j \in Instances : j < i => pc[j] \in {"returned", "thrown"}
  /\ lx' = [lx EXCEPT ![i] = constructor(src)]
  /\ pc' = [pc EXCEPT ![i] = "idle"]
  /\ UNCHANGED <<ver, src, written, ret, calls, consumed, lens, last, steps, js, cp>>

\* a getTokens that clears the ended flag when it is entered
GetTokensRestarts(i) ==
  /\ pc[i] \in {"idle", "returned"}
  /\ \A j \in Instances : pc[j] # "running"
  /\ calls[i] < MaxCalls
  /\ pc' = [pc EXCEPT ![i] = "running"]
  /\ lx' = [lx EXCEPT ![i].ended = FALSE]
  /\ UNCHANGED <<ver, src, written, ret, calls, consumed, lens, last, steps, js, cp>>

\* getTokens() is entered; the call is synchronous, so no other call is
\* under way
GetTokens(i) ==
  /\ pc[i] \in {"idle", "returned"}
  /\ \A j \in Instances : pc[j] # "running"
  /\ calls[i] < MaxCalls
  /\ pc' = [pc EXCEPT ![i] = "running"]
  /\ UNCHANGED <<ver, src, written, lx, ret, calls, consumed, lens, last, steps, js, cp>>

\* the effect of the advance step a on instance i
Advanced(i, a) ==
  /\ lx' = [lx EXCEPT ![i] = a.res.lx]
  /\ pc' = [pc EXCEPT ![i] = IF a.res.err # NoErr THEN "thrown" ELSE @]
  /\ consumed' = [consumed EXCEPT ![i] =
        @ \o SubSeq(lx[i].input, 1, Len(lx[i].input) - Len(a.res.lx.input))]
  /\ lens' = [lens EXCEPT ![i] = @ + a.res.n]
  /\ last' = [last EXCEPT ![i] = a.func]
  /\ steps' = [steps EXCEPT ![i] = @ + 1]
  /\ ret' = [ret EXCEPT ![i] = IF a.res.err # NoErr THEN a.res.err ELSE @]
  /\ UNCHANGED <<ver, src, written, calls, js, cp>>

\* one pass of while (!this.ended) this.advance(), decided by recogniser func
Step(i, func, a) ==
  /\ pc[i] = "running"
  /\ ~lx[i].ended
  /\ a.func = func
  /\ Advanced(i, a)

AdvanceEos(i) == Step(i, "eos", advance(ver, lx[i]))
AdvanceTag(i) == Step(i, "tag", advance(ver, lx[i]))
AdvanceCode(i) == Step(i, "code", advance(ver, lx[i]))
AdvanceAttrs(i) == Step(i, "attrs", advance(ver, lx[i]))
AdvanceText(i) == Step(i, "text", advance(ver, lx[i]))
AdvanceColon(i) == Step(i, "colon", advance(ver, lx[i]))
AdvanceFail(i) == Step(i, "fail", advance(ver, lx[i]))

\* the loop ends and getTokens returns this.tokens
Return(i) ==
  /\ pc[i] = "running"
  /\ lx[i].ended
  /\ ret' = [ret EXCEPT ![i] = lx[i].tokens]
  /\ calls' = [calls EXCEPT ![i] = @ + 1]
  /\ pc' = [pc EXCEPT ![i] = "returned"]
  /\ UNCHANGED <<ver, src, written, lx, consumed, lens, last, steps, js, cp>>

Next ==
  \/ \E i \in Instances : Construct(i)
  \/ \E i \in Instances : GetTokens(i)
  \/ \E i \in Instances : AdvanceEos(i)
  \/ \E i \in Instances : AdvanceTag(i)
  \/ \E i \in Instances : AdvanceCode(i)
  \/ \E i \in Instances : AdvanceAttrs(i)
  \/ \E i \in Instances : AdvanceText(i)
  \/ \E i \in Instances : AdvanceColon(i)
  \/ \E i \in Instances : AdvanceFail(i)
  \/ \E i \in Instances : Return(i)

Spec == Init /\ [][Next]_vars

\* two Lexer instances built on the same string, one after the other; the
\* strings are the shorter ones and the attribute lists of one entry
InitTwo ==
  /\ InitWith({1, 2}, [1..1 -> Entries],
              StringsUpTo(SigmaAttr, MaxLen - 1)
                \cup StringsUpTo(SigmaLine, MaxLen - 1) \cup RawInputs)
  /\ js = JsOff
  /\ cp = CpOff

SpecTwo == InitTwo /\ [][Next]_vars

----------------------------------------------------------------------------
(* JavaScript.tokenize as a state machine: the call and its passes         *)

InitJS ==
  /\ InitWith({}, {}, JsInputs)
  /\ js = [JsOff EXCEPT !.pc = "new"]
  /\ cp = CpOff

\* a call whose tokens parameter is the accumulator of the call before
TokenizeAgainShared ==
  /\ js.pc \in {"done", "thrown"}
  /\ js.calls < MaxTokenize
  /\ src' \in AgainInputs
  /\ js' = [js EXCEPT !.pc = "pass", !.code = src', !.next = <<>>,
                      !.passes = 0, !.error = "none",
                      !.calls = @ + 1, !.explicit = FALSE,
                      !.before = js.tokens, !.earlier = js.tokens]
  /\ UNCHANGED <<ver, written, lx, pc, ret, calls, consumed, lens, last, steps, cp>>

\* tokenize(src): next and tokens take their default values
TokenizeCall ==
  /\ js.pc = "new"
  /\ js' = [js EXCEPT !.pc = "pass", !.code = src, !.next = <<>>,
                      !.tokens = NewSymbols, !.calls = @ + 1,
                      !.explicit = FALSE, !.before = NewSymbols]
  /\ UNCHANGED <<ver, src, written, lx, pc, ret, calls, consumed, lens, last, steps, cp>>

\* tokenize(src, '', acc): the caller passes its own accumulator
TokenizeWith ==
  /\ js.pc = "new"
  /\ \E acc \in Accumulators :
       js' = [js EXCEPT !.pc = "pass", !.code = src, !.next = <<>>,
                        !.tokens = acc, !.calls = @ + 1,
                        !.explicit = TRUE, !.before = acc]
  /\ UNCHANGED <<ver, src, written, lx, pc, ret, calls, consumed, lens, last, steps, cp>>

\* a later tokenize(code) on the same parser, after the call before has
\* returned or thrown: the default value of tokens is built anew
TokenizeAgain ==
  /\ js.pc \in {"done", "thrown"}
  /\ js.calls < MaxTokenize
  /\ src' \in AgainInputs
  /\ js' = [js EXCEPT !.pc = "pass", !.code = src', !.next = <<>>,
                      !.tokens = NewSymbols, !.passes = 0, !.error = "none",
                      !.calls = @ + 1, !.explicit = FALSE,
                      !.before = NewSymbols, !.earlier = js.tokens]
  /\ UNCHANGED <<ver, written, lx, pc, ret, calls, consumed, lens, last, steps, cp>>

\* one pass that ends as out says; r is the outcome of the pass
Pass(out, r) ==
  /\ js.pc = "pass"
  /\ r.out = out
  /\ js' = [js EXCEPT
              !.pc = IF out = "recurse" THEN "pass"
                     ELSE IF out = "return" THEN "done" ELSE "thrown",
              !.code = r.code, !.next = r.next, !.tokens = r.tokens,
              !.passes = @ + 1,
              !.error = IF out \in {"lexerror", "typeerror"} THEN out ELSE "none"]
  /\ UNCHANGED <<ver, src, written, lx, pc, ret, calls, consumed, lens, last, steps, cp>>

PassRecurse == Pass("recurse", tokenizePass(ver, js.code, js.next, js.tokens))
PassReturn == Pass("return", tokenizePass(ver, js.code, js.next, js.tokens))
PassLexError == Pass("lexerror", tokenizePass(ver, js.code, js.next, js.tokens))
PassTypeError == Pass("typeerror", tokenizePass(ver, js.code, js.next, js.tokens))

NextJS ==
  \/ TokenizeCall
  \/ TokenizeWith
  \/ TokenizeAgain
  \/ PassRecurse
  \/ PassReturn
  \/ PassLexError
  \/ PassTypeError

SpecJS == InitJS /\ [][NextJS]_vars

----------------------------------------------------------------------------
(* The C parser as a state machine: the call, and for each token of the   *)
(* line the four recognition procedures in turn                            *)

InitC ==
  /\ InitWith({}, {}, {<<>>})
  /\ ver = "new"
  /\ js = JsOff
  /\ cp \in {[CpOff EXCEPT !.pc = "new", !.line = l] : l \in CLines}

CUnchanged ==
  UNCHANGED <<ver, src, written, lx, pc, ret, calls, consumed, lens, last,
              steps, js>>

\* tokenize(code): new Symbols, the flags reset, the first token if any
CTokenize ==
  /\ cp.pc = "new"
  /\ cp' = [cp EXCEPT !.pc = IF cp.line = <<>> THEN "end" ELSE "class",
                      !.i = 1, !.st = CState]
  /\ CUnchanged

ParseClass ==
  /\ cp.pc = "class"
  /\ cp' = [cp EXCEPT !.pc = "function",
                      !.st = parseClass(cp.line[cp.i], cp.st)]
  /\ CUnchanged

ParseFunction ==
  /\ cp.pc = "function"
  /\ cp' = [cp EXCEPT !.pc = "parameters",
                      !.st = parseFunction(cp.line[cp.i], cp.st)]
  /\ CUnchanged

ParseParameters ==
  /\ cp.pc = "parameters"
  /\ cp' = [cp EXCEPT !.pc = "variable",
                      !.st = parseParameters(cp.line[cp.i], cp.st)]
  /\ CUnchanged

\* the last procedure of a token; then the next token, or the end of the
\* loop when done is set or the tokens are exhausted
CNextToken(st) ==
  IF st.done \/ cp.i = Len(cp.line)
  THEN [cp EXCEPT !.pc = "end", !.st = st]
  ELSE [cp EXCEPT !.pc = "class", !.i = @ + 1, !.st = st]

ParseVariable ==
  /\ cp.pc = "variable"
  /\ cp' = CNextToken(parseVariable(cp.line[cp.i], cp.st))
  /\ CUnchanged

NextC ==
  \/ CTokenize
  \/ ParseClass
  \/ ParseFunction
  \/ ParseParameters
  \/ ParseVariable

SpecC == InitC /\ [][NextC]_vars

----------------------------------------------------------------------------
(* Properties                                                              *)

EosAt(line, col) ==
  [type |-> "eos", line |-> line, col |-> col, val |-> Undefined,
   name |-> Undefined, mustEscape |-> "undefined", buffer |-> "undefined"]

\* the number of tokens of the sequence that have the given type
CountType(toks, type) == Cardinality({k \in 1..Len(toks) : toks[k].type = type})

\* C5: every token sequence that getTokens returns holds exactly one eos
\* token, and that token is its last element; this is so for the first call
\* and for every later call on the same Lexer.
C5_OneEosLast ==
  \A i \in Instances :
    pc[i] = "returned" =>
      /\ Len(ret[i]) >= 1
      /\ ret[i][Len(ret[i])].type = "eos"
      /\ CountType(ret[i], "eos") = 1

\* a second getTokens call has returned a sequence of several tokens
C5_Witness ==
  \E i \in Instances : pc[i] = "returned" /\ calls[i] = 2 /\ Len(ret[i]) >= 3

\* C6: lexing the empty string never throws and returns exactly one token,
\* the eos token at line 1, column 1.
C6_EmptyInput ==
  \A i \in Instances :
    src = <<>> =>
      /\ pc[i] # "thrown"
      /\ pc[i] = "returned" => ret[i] = <<EosAt(1, 1)>>

\* the lex of the empty string has returned
C6_Witness == \E i \in Instances : src = <<>> /\ pc[i] = "returned"

\* C1: for every declaration function <name>(<p1>, ..., <pn>) { tokenize
\* does not throw, and it returns type function, name <name>, the n
\* parameters p1..pn in source order and return.present true.
C1_FunctionDecl ==
  \A n \in JsNames, ps \in ParamLists :
    (src = Decl(n, ps) /\ ~js.explicit) =>
      /\ js.pc # "thrown"
      /\ js.pc = "done" =>
           /\ js.tokens.type = FunctionKw
           /\ js.tokens.name = n
           /\ Len(js.tokens.params) = Len(ps)
           /\ \A k \in 1..Len(ps) : js.tokens.params[k].name = ps[k]
           /\ js.tokens.present

\* the attribute tokens of a token sequence, in order
attributesOf(toks) == SelectSeq(toks, LAMBDA t : t.type = "attribute")

\* C3: in a returned token sequence every entry written without a value
\* has an attribute token whose val is the empty string.
C3_NoDefaultVal ==
  \A i \in Instances :
    (pc[i] = "returned" /\ src = AttrInput(written)) =>
      /\ Len(attributesOf(ret[i])) = Len(written)
      /\ \A k \in 1..Len(written) :
           written[k] \in Names => attributesOf(ret[i])[k].val = <<>>

\* C4: in a returned token sequence an entry written name=value has an
\* attribute token with that name, the value without the whitespace around
\* it and mustEscape true; an entry written name!=value has the same with
\* mustEscape false; this is so at every position of the list.
C4_ValueAndEscape ==
  \A i \in Instances :
    (pc[i] = "returned" /\ src = AttrInput(written)) =>
      /\ Len(attributesOf(ret[i])) = Len(written)
      /\ \A k \in 1..Len(written) :
           \A n \in Names, op \in Ops, pad \in Pads, v \in Values :
             written[k] = Entry(n, op, pad, v) =>
               /\ attributesOf(ret[i])[k].name = n
               /\ attributesOf(ret[i])[k].val = v
               /\ attributesOf(ret[i])[k].mustEscape =
                    (IF op = <<"=">> THEN "true" ELSE "false")

\* a list has returned whose first entry is name=value and whose second
\* entry is name!=value with spaces around the value
C4_Witness ==
  \E i \in Instances :
    /\ pc[i] = "returned"
    /\ src = AttrInput(written)
    /\ Len(written) = 2
    /\ \E n \in Names, v \in Values : written[1] = Entry(n, <<"=">>, <<>>, v)
    /\ \E n \in Names, v \in Values :
         written[2] = Entry(n, <<"!", "=">>, <<" ">>, v)

\* what an advance step of instance i did, by the recogniser that decided it
StepProgress(i) ==
  \/ pc'[i] = "thrown"
  \/ /\ last'[i] \in {"tag", "code", "attrs", "text", "colon"}
     /\ Len(lx'[i].input) < Len(lx[i].input)
  \/ /\ last'[i] = "eos"
     /\ lx'[i].ended
     /\ lx'[i].input = lx[i].input
     /\ lx'[i].tokens = Append(lx[i].tokens, EosAt(lx[i].line, lx[i].column))

\* C7: every advance step throws, or is a tag, code, attrs, text or colon
\* step that leaves strictly less input, or is the eos step that appends
\* the eos token and sets ended; so the loop of getTokens makes at most one
\* advance call per character of the input and one more for eos.
C7_Terminates ==
  /\ [][\A i \in Instances : steps'[i] # steps[i] => StepProgress(i)]_vars
  /\ [](\A i \in Instances : steps[i] <= Len(constructor(src).input) + 1)

\* a getTokens call has returned after tag, attrs and eos steps
C7_Witness ==
  \E i \in Instances :
    /\ pc[i] = "returned"
    /\ last[i] = "eos"
    /\ steps[i] >= 3
    /\ Len(ret[i]) >= 5

\* C8 as stated: when getTokens has returned, the prefixes removed by
\* consume, concatenated in order, are the string given to the constructor.
C8_ConsumedIsSource ==
  \A i \in Instances : pc[i] = "returned" => consumed[i] = src

\* C8: when getTokens has returned, the prefixes removed by consume,
\* concatenated in order, are the input as the constructor stored it (byte
\* order mark stripped, carriage returns replaced), the lengths passed to
\* consume add up to its length, and the eos step removed nothing.
C8_ConsumedIsInput ==
  /\ [](\A i \in Instances :
          pc[i] = "returned" =>
            /\ consumed[i] = constructor(src).input
            /\ lens[i] = Len(constructor(src).input))
  /\ [][\A i \in Instances :
          (steps'[i] # steps[i] /\ last'[i] = "eos") =>
            /\ consumed'[i] = consumed[i]
            /\ lens'[i] = lens[i]]_vars

\* a lex of an input with a carriage return has returned after several
\* consume calls
C8_Witness ==
  \E i \in Instances :
    /\ pc[i] = "returned"
    /\ src # constructor(src).input
    /\ steps[i] >= 3
    /\ consumed[i] # <<>>

Unmatched(s) ==
  /\ s # <<>>
  /\ s[1] = "("
  /\ \A k \in 1..Len(s) :
       Count(SubSeq(s, 1, k), "(") > Count(SubSeq(s, 1, k), ")")

\* C10: an advance step on remaining input that begins with an unclosed (
\* is decided by attrs and throws; the lex pushes no attribute token for it
\* and does not return.
C10_UnbalancedThrows ==
  [][\A i \in Instances :
       (steps'[i] # steps[i] /\ Unmatched(lx[i].input)) =>
         /\ last'[i] = "attrs"
         /\ pc'[i] = "thrown"
         /\ attributesOf(lx'[i].tokens) = attributesOf(lx[i].tokens)]_vars

\* the lex of a tag followed by an unclosed list that holds a comma has thrown
C10_Witness ==
  \E i \in Instances :
    /\ pc[i] = "thrown"
    /\ last[i] = "attrs"
    /\ Unmatched(lx[i].input)
    /\ Count(lx[i].input, ",") = 1
    /\ \E k \in 1..Len(lx[i].tokens) : lx[i].tokens[k].type = "tag"

\* C11: when a tokenize call that was given an accumulator ends with a
\* lexer error, the accumulator is as it was when the call began.
C11_ErrorLeavesAccumulator ==
  (js.pc = "thrown" /\ js.error = "lexerror" /\ js.explicit) =>
    js.tokens = js.before

ClassToken == is(cp.line[cp.i].value, "class")

StructFoo == <<CWord(Struct), CWord(<<"F", "o", "o">>), CPunct("{")>>

C13_ParseClass ==
  /\ [][ParseClass =>
         IF ClassToken
         THEN /\ cp'.st.symbols.type = "Class"
              /\ cp'.st.symbols.name = Struct
              /\ cp'.st.done
         ELSE cp'.st = cp.st]_vars
  /\ [](cp.pc = "end" /\ cp.line = StructFoo
          => /\ cp.st.symbols.type = "Class"
             /\ cp.st.symbols.name = Struct
             /\ cp.st.done)

\* the call on struct Foo { has ended, having looked at one token only
C13_Witness ==
  /\ cp.pc = "end"
  /\ cp.line = StructFoo
  /\ cp.i = 1
  /\ cp.st.done

\* C14: the keyword categories of the C grammar are pairwise disjoint: no
\* token that the parser looks at is in more than one of the lists class,
\* function, modifiers, types and variables.
C14_CategoriesDisjoint ==
  cp.pc \in {"class", "function", "parameters", "variable"} =>
    \A a, b \in DOMAIN grammar :
      (is(cp.line[cp.i].value, a) /\ is(cp.line[cp.i].value, b)) => a = b

\* the recognisers of the order that match the input of L or throw on it
Decides(r) == r.hit \/ r.err # NoErr

Deciders(v, L, order) ==
  {k \in 1..Len(order) : Decides(call(v, order[k], L))}

\* the advance step of instance i was decided by recogniser func, of result r
DecidedBy(i, func, r) ==
  /\ last'[i] = func
  /\ lx'[i].tokens = r.lx.tokens
  /\ pc'[i] = "thrown" <=> r.err # NoErr

\* the advance step of instance i did what the first recogniser of the order
\* that matches does, and failed with the first 5 characters if none matches
StepFirst(i, order, ds) ==
  IF ds = {}
  THEN /\ pc'[i] = "thrown"
       /\ ret'[i] = <<"Unexpected text">> \o Substr2(lx[i].input, 0, 5)
       /\ lx'[i].tokens = lx[i].tokens
  ELSE DecidedBy(i, order[Min(ds)], call(ver, order[Min(ds)], lx[i]))

StepByOrder(i, order) == StepFirst(i, order, Deciders(ver, lx[i], order))

SixOrder == <<"eos", "tag", "code", "attrs", "text", "colon">>
FiveOrder == <<"eos", "tag", "code", "attrs", "text">>

CodeThrew(i) ==
  /\ pc'[i] = "thrown"
  /\ lx'[i].tokens = lx[i].tokens

\* the code step appended the token tok and did not throw
CodeAppended(i, marker, tok) ==
  /\ pc'[i] # "thrown"
  /\ Len(lx'[i].tokens) = Len(lx[i].tokens) + 1
  /\ tok.type = "code"
  /\ tok.mustEscape = "true" <=> marker = <<"=">>
  /\ tok.buffer = "true" <=> marker \in {<<"=">>, <<"!", "=">>}
  /\ tok.mustEscape \in {"true", "false"}
  /\ tok.buffer \in {"true", "false"}

CodeStep(i, marker, captured) ==
  IF marker \in {<<"=">>, <<"!", "=">>} /\ ~isExpression(captured)
  THEN CodeThrew(i)
  ELSE CodeAppended(i, marker, lx'[i].tokens[Len(lx'[i].tokens)])

\* C16: a code step throws and appends nothing when the marker is = or !=
\* and the code text is not an expression; otherwise it appends one code
\* token, whose mustEscape is true iff the marker is = and whose buffer is
\* true iff the marker is = or !=; the text after the marker - is not
\* validated.
C16_CodeToken ==
  [][\A i \in Instances :
       (steps'[i] # steps[i] /\ last'[i] = "code") =>
         CodeStep(i, codeFlags(lx[i].input), codeMatch(lx[i].input).code)]_vars

\* a lex that threw in the code step on text after the marker !=
C16_Witness ==
  \E i \in Instances :
    /\ pc[i] = "thrown"
    /\ last[i] = "code"
    /\ Len(src) >= 3
    /\ SubSeq(src, 1, 2) = <<"!", "=">>
    /\ lx[i].tokens = <<>>

\* the column at which entry k of the list begins in AttrInput(es)
RECURSIVE KeyCol(_, _)
KeyCol(es, k) == IF k = 1 THEN 3 ELSE KeyCol(es, k - 1) + Len(es[k - 1]) + 2

\* in the tokens returned for a one-line input, each code token has the
\* column of the first character of its text, which runs to the end
CodeColsAtText(toks, input) ==
  \A k \in 1..Len(toks) :
    toks[k].type = "code" => toks[k].col = Len(input) - Len(toks[k].val) + 1

\* each attribute token has the column at which its key begins
AttrColsAtKey(toks, es) ==
  \A k \in 1..Len(es) :
    k <= Len(attributesOf(toks)) => attributesOf(toks)[k].col = KeyCol(es, k)

\* C17: in a returned token sequence the col of a code token is the column
\* of the first character of its code text, after the marker and the blanks
\* that follow it, and the col of an attribute token is the column at which
\* its key begins.
C17_ColAtValue ==
  \A i \in Instances :
    (pc[i] = "returned" /\ \A k \in 1..Len(src) : src[k] \notin {NL, CR, BOM}) =>
      /\ CodeColsAtText(ret[i], src)
      /\ src = AttrInput(written) => AttrColsAtKey(ret[i], written)

\* C18: for an input without a newline that lexes successfully, the eos
\* token has line 1 and col 1 plus the length of the input: the recognisers
\* advance the column by the number of characters they consume.
C18_EosColumn ==
  \A i \in Instances :
    (pc[i] = "returned" /\ \A k \in 1..Len(src) : src[k] \notin {NL, CR, BOM}) =>
      ret[i][Len(ret[i])] = EosAt(1, 1 + Len(src))

\* a list of two entries has returned, the second written name != value
\* with blanks, and the eos token is one column past the closing parenthesis
C18_Witness ==
  \E i \in Instances :
    /\ pc[i] = "returned"
    /\ Len(written) = 2
    /\ src = AttrInput(written)
    /\ \E n \in Names, v \in Values :
         written[2] = Entry(n, <<"!", "=">>, <<" ">>, v)
    /\ ret[i][Len(ret[i])].col = Len(src) + 1

\* the index in s of the first character of the given line
LineStart(s, line) ==
  IF line = 1 THEN 1
  ELSE 1 + CHOOSE p \in 1..Len(s) :
             /\ s[p] = NL
             /\ Cardinality({q \in 1..p : s[q] = NL}) = line - 1

\* the text of s from the given line and column on
TextAt(s, line, col) ==
  IF Count(s, NL) < line - 1 THEN <<>>
  ELSE SubSeq(s, LineStart(s, line) + col - 1, Len(s))

StartsWith(s, prefix) ==
  Len(s) >= Len(prefix) /\ SubSeq(s, 1, Len(prefix)) = prefix

\* where the token stands in the input, by its line and column
TokenAtText(input, tok) ==
  IF tok.type = "attribute"
    THEN StartsWith(TextAt(input, tok.line, tok.col), tok.name)
  ELSE IF tok.type = "start-attributes"
    THEN StartsWith(TextAt(input, tok.line, tok.col), <<"(">>)
  ELSE IF tok.type = "end-attributes"
    THEN StartsWith(TextAt(input, tok.line, tok.col), <<")">>)
  ELSE TRUE

\* C19: in the token sequence returned for a tag followed by an attribute
\* list, also when the list holds newlines, every attribute token has the
\* line and the column at which its key begins, with the character after a
\* newline at column 1, and the end-attributes token and the eos token have
\* the starting line plus the number of newlines of the list.
C19_ListLines ==
  \A i \in Instances :
    (pc[i] = "returned" /\ CountType(ret[i], "start-attributes") = 1
       /\ lx[i].input = <<>> /\ ret[i][Len(ret[i]) - 1].type = "end-attributes") =>
      /\ \A k \in 1..Len(ret[i]) : TokenAtText(constructor(src).input, ret[i][k])
      /\ ret[i][Len(ret[i]) - 1].line = 1 + Count(constructor(src).input, NL)
      /\ ret[i][Len(ret[i])].line = 1 + Count(constructor(src).input, NL)

\* a list over four lines has returned: the key of its first entry is
\* followed by a newline and its second entry begins the fourth line
C19_Witness ==
  \E i \in Instances :
    /\ pc[i] = "returned"
    /\ Count(src, NL) = 3
    /\ Len(attributesOf(ret[i])) = 2
    /\ attributesOf(ret[i])[1].line = 1
    /\ attributesOf(ret[i])[2].line = 4
    /\ attributesOf(ret[i])[2].col = 1

\* token k of the sequence stands where the pairing allows it
PairedAt(toks, k) ==
  /\ toks[k].type = "start-attributes" =>
       \E m \in (k + 1)..Len(toks) :
         /\ toks[m].type = "end-attributes"
         /\ \A j \in (k + 1)..(m - 1) : toks[j].type = "attribute"
  /\ toks[k].type = "end-attributes" =>
       \E m \in 1..(k - 1) :
         /\ toks[m].type = "start-attributes"
         /\ \A j \in (m + 1)..(k - 1) : toks[j].type = "attribute"
  /\ toks[k].type = "attribute" =>
       /\ k > 1
       /\ toks[k - 1].type \in {"start-attributes", "attribute"}
       /\ k < Len(toks)
       /\ toks[k + 1].type \in {"attribute", "end-attributes"}

\* C20: in every returned token sequence each start-attributes token is
\* followed by attribute tokens only and then by an end-attributes token,
\* each end-attributes token closes such a run, and attribute tokens stand
\* nowhere else.
C20_AttributesPaired ==
  \A i \in Instances :
    pc[i] = "returned" => \A k \in 1..Len(ret[i]) : PairedAt(ret[i], k)

\* a sequence with two lists has returned, of one and of two attributes
C20_Witness ==
  \E i \in Instances :
    /\ pc[i] = "returned"
    /\ CountType(ret[i], "start-attributes") = 2
    /\ CountType(ret[i], "end-attributes") = 2
    /\ CountType(ret[i], "attribute") = 3

\* the position of token a is before that of token b, or the same
PosLeq(a, b) == a.line < b.line \/ (a.line = b.line /\ a.col <= b.col)

PosLess(a, b) == a.line < b.line \/ (a.line = b.line /\ a.col < b.col)

\* C21: along every returned token sequence the pair (line, col) never
\* decreases, and for an input without a newline it increases from each
\* token to the next.
C21_SourceOrder ==
  \A i \in Instances :
    pc[i] = "returned" =>
      \A k \in 1..(Len(ret[i]) - 1) :
        /\ PosLeq(ret[i][k], ret[i][k + 1])
        /\ Count(constructor(src).input, NL) = 0 =>
             PosLess(ret[i][k], ret[i][k + 1])

\* a sequence has returned in which an attribute on a later line has a
\* smaller column than the attribute before it
C21_Witness ==
  \E i \in Instances :
    /\ pc[i] = "returned"
    /\ \E k \in 1..(Len(ret[i]) - 1) :
         /\ ret[i][k].type = "attribute"
         /\ ret[i][k + 1].type = "attribute"
         /\ ret[i][k].line < ret[i][k + 1].line
         /\ ret[i][k].col > ret[i][k + 1].col

\* the token before the current one is an identifier that is neither a
\* type nor a modifier
AfterPlainName ==
  /\ cp.i > 1
  /\ is(cp.line[cp.i - 1].value, "identifier")
  /\ ~is(cp.line[cp.i - 1].value, "types")
  /\ ~is(cp.line[cp.i - 1].value, "modifiers")

\* C22: parseFunction of the C parser, on a ( token that follows an
\* identifier which is neither a type nor a modifier, sets type to Function,
\* return.type to varType and expectParameter to true; on every other token
\* it leaves type, return.type and expectParameter as they were.
C22_ParseFunction ==
  [][ParseFunction =>
       IF cp.line[cp.i].label = "(" /\ AfterPlainName
       THEN /\ cp'.st.symbols.type = "Function"
            /\ cp'.st.symbols.returnType = cp.st.symbols.varType
            /\ cp'.st.expectParameter
       ELSE /\ cp'.st.symbols.type = cp.st.symbols.type
            /\ cp'.st.symbols.returnType = cp.st.symbols.returnType
            /\ cp'.st.expectParameter = cp.st.expectParameter]_vars

\* the parser is collecting the parameters of a function
Collecting == cp.st.symbols.type = "Function" /\ cp.st.expectParameter

\* the Params of the step's Symbols before and after it
ParamsKept(n) ==
  \A k \in 1..n :
    /\ cp'.st.symbols.params[k].type = cp.st.symbols.params[k].type
    /\ cp.st.symbols.params[k].name # <<>> =>
         cp'.st.symbols.params[k].name = cp.st.symbols.params[k].name
    /\ cp'.st.symbols.params[k].name # cp.st.symbols.params[k].name =>
         /\ cp'.st.symbols.params[k].name = cp.line[cp.i].value
         /\ is(cp.line[cp.i].value, "identifier")
         /\ ~is(cp.line[cp.i].value, "types")

\* C23: while the C parser collects parameters, a token of the types category
\* appends exactly one Param that carries the type and has no name yet, no
\* other token appends a Param, the Params before it keep their order and
\* types, a Param without a name takes it from an identifier that follows
\* its type token, and a Param that has a name keeps it.
C23_ParamNames ==
  [][ParseParameters /\ Collecting =>
       /\ IF is(cp.line[cp.i].value, "types")
          THEN /\ Len(cp'.st.symbols.params) = Len(cp.st.symbols.params) + 1
               /\ cp'.st.symbols.params[Len(cp'.st.symbols.params)] =
                    [name |-> <<>>, type |-> cp.line[cp.i].value]
          ELSE Len(cp'.st.symbols.params) = Len(cp.st.symbols.params)
       /\ ParamsKept(Len(cp.st.symbols.params))]_vars

\* the call has ended on a line that closes its parameters right after a
\* type keyword which became the last Param
EndsUnnamed ==
  /\ cp.pc = "end"
  /\ Len(cp.line) >= 3
  /\ cp.line[Len(cp.line)].label = ")"
  /\ is(cp.line[Len(cp.line) - 1].value, "types")
  /\ cp.st.symbols.type = "Function"
  /\ cp.st.symbols.params # <<>>
  /\ cp.st.symbols.params[Len(cp.st.symbols.params)].type =
       cp.line[Len(cp.line) - 1].value

\* C24: when the line has been processed, a parameter that is a type keyword
\* followed at once by the closing parenthesis has the empty name.
C24_UnnamedParam ==
  EndsUnnamed => cp.st.symbols.params[Len(cp.st.symbols.params)].name = <<>>

\* C25: a ) token handed to parseParameters while parameters are collected
\* clears expectParameter; while expectParameter is false no step adds a
\* Param or changes one, and only a ( token sets expectParameter again.
C25_ClosedParams ==
  [][/\ (ParseParameters /\ Collecting /\ cp.line[cp.i].label = ")") =>
          ~cp'.st.expectParameter
     /\ (~cp.st.expectParameter /\ cp'.st.expectParameter) =>
          cp.pc = "function" /\ cp.line[cp.i].label = "("
     /\ (~cp.st.expectParameter /\ cp.pc # "function") =>
          cp'.st.symbols.params = cp.st.symbols.params
     /\ cp.pc = "function" => cp'.st.symbols.params = cp.st.symbols.params]_vars

\* a type keyword reaches parseParameters after the parameters were closed,
\* and a Param of the closed list exists
C25_Witness ==
  /\ cp.pc = "parameters"
  /\ ~cp.st.expectParameter
  /\ cp.st.symbols.type = "Function"
  /\ cp.st.symbols.params # <<>>
  /\ is(cp.line[cp.i].value, "types")

\* C26: parseVariable, on a types token while no kind is assigned, sets
\* varType to the token, type to Variable and expectName; otherwise a token
\* accepted as a name while expectName holds becomes the name and clears
\* expectName; a types token after a kind is assigned changes neither type
\* nor varType, and a name once set is not overwritten by parseVariable.
C26_ParseVariable ==
  [][ParseVariable =>
       IF is(cp.line[cp.i].value, "types") /\ cp.st.symbols.type = "unset"
       THEN /\ cp'.st.symbols.varType = cp.line[cp.i].value
            /\ cp'.st.symbols.type = "Variable"
            /\ cp'.st.expectName
            /\ cp'.st.symbols.name = cp.st.symbols.name
       ELSE /\ cp'.st.symbols.type = cp.st.symbols.type
            /\ cp'.st.symbols.varType = cp.st.symbols.varType
            /\ IF cp.st.expectName /\ isName(cp.line[cp.i].value)
               THEN /\ cp'.st.symbols.name = cp.line[cp.i].value
                    /\ ~cp'.st.expectName
               ELSE /\ cp'.st.symbols.name = cp.st.symbols.name
                    /\ cp'.st.expectName = cp.st.expectName
            /\ cp.st.symbols.name # <<>> =>
                 cp'.st.symbols.name = cp.st.symbols.name]_vars

\* the call has ended on a line with a type, a name and a further
\* identifier: the name is still the first identifier
C26_Witness ==
  /\ cp.pc = "end"
  /\ Len(cp.line) >= 3
  /\ is(cp.line[1].value, "types")
  /\ isName(cp.line[2].value)
  /\ isName(cp.line[3].value)
  /\ cp.line[3].value # cp.line[2].value
  /\ cp.st.symbols.type = "Variable"
  /\ cp.st.symbols.varType = cp.line[1].value
  /\ cp.st.symbols.name = cp.line[2].value

\* the first token of the pass is the function or the class keyword
KeywordFirst(lexed) ==
  matchesGrammer(lexed[1].val, "function") \/ matchesGrammer(lexed[1].val, "class")

\* the value of the text token when the pass reaches its last test: the
\* prototype branch has removed the first "= " from it
TextVal(c, lexed, cur) ==
  IF ~KeywordFirst(lexed) /\ protoTest(c)
  THEN replaceAssign(lexed[cur].val) ELSE lexed[cur].val

\* the text token starts before the column of eos and its value begins
\* with a character of the identifier pattern
MustContinue(c, lexed, cur) ==
  /\ lexed[cur].col < lexed[findByType("eos", lexed)].col
  /\ CharAt(TextVal(c, lexed, cur), 0) \in Identifier

\* the pass calls tokenize again exactly in that case, on the value of the
\* text token and with its next hint, and otherwise returns
ContinuesWhen(c, lexed, cur) ==
  /\ js'.pc = (IF MustContinue(c, lexed, cur) THEN "pass" ELSE "done")
  /\ js'.pc = "pass" =>
       /\ js'.code = TextVal(c, lexed, cur)
       /\ js'.next = (IF KeywordFirst(lexed) THEN lexed[1].val ELSE js.next)

\* s is the beginning of t
IsPrefix(s, t) == Len(s) <= Len(t) /\ SubSeq(t, 1, Len(s)) = s

\* a type or a name that the passes before have set (it is not the one the
\* call began with) is the same after the pass, and the params of the
\* passes before are the first params after it
KeepsEarlier ==
  /\ js.tokens.type # js.before.type => js'.tokens.type = js.tokens.type
  /\ js.tokens.name # js.before.name => js'.tokens.name = js.tokens.name
  /\ js'.tokens.present = js.tokens.present
  /\ IsPrefix(js.tokens.params, js'.tokens.params)

\* the pass of the step has lexed its code and found a text token
PassWithText(r) ==
  /\ js.pc = "pass"
  /\ js'.passes = js.passes + 1
  /\ r.err = NoErr
  /\ findByType("text", r.tokens) # 0

\* C27: a pass of JavaScript.tokenize that finds a text token calls tokenize
\* again, on the value of that token, with the same Symbols and its next
\* hint, exactly when the token starts before the column of eos and its
\* value begins with an identifier character, and returns otherwise; what
\* earlier passes have set in the Symbols is kept and params only grow.
C27_Continuation ==
  [][PassWithText(lexer(ver, js.code)) =>
       /\ ContinuesWhen(js.code, lexer(ver, js.code).tokens,
                        findByType("text", lexer(ver, js.code).tokens))
       /\ KeepsEarlier]_vars

\* C28: every recursive call of JavaScript.tokenize is made on a string
\* strictly shorter than the code of the pass that makes it, and a call
\* never makes more passes than its input has characters (one more for the
\* first pass), so every call ends.
C28_Terminates ==
  /\ [][PassRecurse => Len(js'.code) < Len(js.code)]_vars
  /\ [](js.passes <= Len(src) + 1)

\* a call has returned after three recursive calls
C28_Witness ==
  /\ js.pc = "done"
  /\ js.passes = 4
  /\ Len(js.code) + 3 <= Len(src)

\* C29: JavaScript.tokenize raises only what the lexer raises: for a code
\* that the lexer accepts every pass returns or continues, also when the
\* lexed sequence holds no text token.
C29_RecognitionTotal == js.pc = "thrown" => js.error = "lexerror"

\* the characters of unquoted keys and of what separates them
KeyText == Lower \cup {",", " ", NL, TAB}

\* the index of the first ! of the string
RECURSIVE FirstBang(_, _)
FirstBang(s, k) ==
  IF k > Len(s) THEN 0 ELSE IF s[k] = "!" THEN k ELSE FirstBang(s, k + 1)

\* the string begins with a ( that is closed, and the list holds a ! that
\* is met while a key is read (only keys and separators stand before it)
\* and that no = follows
BangInKey(s) ==
  /\ Len(s) >= 2
  /\ s[1] = "("
  /\ ~Unmatched(s)
  /\ FirstBang(s, 2) # 0
  /\ \A k \in 2..(FirstBang(s, 2) - 1) : s[k] \in KeyText
  /\ FirstBang(s, 2) < Len(s) => s[FirstBang(s, 2) + 1] # "="

\* the first character at index k or later that is no whitespace
RECURSIVE NextSolid(_, _)
NextSolid(s, k) ==
  IF k < Len(s) /\ s[k] \in whitespaceRe THEN NextSolid(s, k + 1) ELSE s[k]

\* the character at index k ends the key read so far: a comma, or
\* whitespace that neither =, ! nor a comma follows
EndsKey(s, k) ==
  IF s[k] \in whitespaceRe THEN NextSolid(s, k) \notin {"=", "!", ","}
  ELSE s[k] = ","

\* the number of entries that end in s[k..p-1]; started says that the key
\* read so far holds a character that is no whitespace
RECURSIVE EntriesScan(_, _, _, _)
EntriesScan(s, k, p, started) ==
  IF k >= p THEN 0
  ELSE IF started /\ EndsKey(s, k) THEN 1 + EntriesScan(s, k + 1, p, FALSE)
  ELSE EntriesScan(s, k + 1, p, started \/ s[k] \notin whitespaceRe)

\* the number of entries of the list that are complete before the entry of
\* the ! at index p
EntriesBefore(s, p) == EntriesScan(s, 2, p, FALSE)

\* C30: an advance step on remaining input that begins with ( and holds, in
\* an unquoted key, a ! that no = follows is decided by attrs and throws: the
\* lex does not go on, and the only attribute tokens pushed are those of the
\* entries before the entry of the !.
C30_BangThrows ==
  [][\A i \in Instances :
       (steps'[i] # steps[i] /\ BangInKey(lx[i].input)) =>
         /\ last'[i] = "attrs"
         /\ pc'[i] = "thrown"
         /\ Len(attributesOf(lx'[i].tokens)) =
              Len(attributesOf(lx[i].tokens))
                + EntriesBefore(lx[i].input, FirstBang(lx[i].input, 2))]_vars

\* the lex of a tag and a closed list has thrown at the ! of its second
\* entry, after the attribute token of the first
C30_Witness ==
  \E i \in Instances :
    /\ pc[i] = "thrown"
    /\ last[i] = "attrs"
    /\ ret[i] = <<"Unexpected character">>
    /\ Count(src, "!") = 1
    /\ Count(src, "=") = 0
    /\ src[Len(src)] = ")"
    /\ Len(attributesOf(lx[i].tokens)) = 1
    /\ \E k \in 1..Len(lx[i].tokens) : lx[i].tokens[k].type = "tag"

\* token k of the sequence, a text or a code token, is the last but one and
\* the eos token follows it on the same line
RestOfLine(toks, k) ==
  /\ k + 1 = Len(toks)
  /\ toks[k + 1].type = "eos"
  /\ toks[k + 1].line = toks[k].line

\* C31: in every returned token sequence a text token and a code token are
\* directly followed by the eos token, so the sequence holds at most one
\* text token, and the col of the text token is less than the col of eos.
C31_TextThenEos ==
  \A i \in Instances :
    pc[i] = "returned" =>
      /\ \A k \in 1..Len(ret[i]) :
           ret[i][k].type \in {"text", "code"} =>
             /\ RestOfLine(ret[i], k)
             /\ ret[i][k].type = "text" => ret[i][k].col < ret[i][k + 1].col
      /\ CountType(ret[i], "text") <= 1

\* a sequence has returned that holds a tag and a text token of more than
\* one character before its eos
C31_Witness ==
  \E i \in Instances :
    /\ pc[i] = "returned"
    /\ Len(ret[i]) = 3
    /\ ret[i][1].type = "tag"
    /\ ret[i][Len(ret[i]) - 1].type = "text"
    /\ ret[i][Len(ret[i])].col > ret[i][Len(ret[i]) - 1].col + 1

\* the character at index k of s stands inside parentheses
InParens(s, k) ==
  Count(SubSeq(s, 1, k), "(") > Count(SubSeq(s, 1, k), ")")

\* every newline of s stands inside parentheses
NewlinesInParens(s) == \A k \in 1..Len(s) : s[k] = NL => InParens(s, k)

\* C32: when getTokens has returned, every newline of the stored input
\* stands inside a parenthesised list; and an advance step on remaining
\* input that begins with a newline is decided by fail, which throws
\* Unexpected text with the first five characters of that input.
C32_NewlineFails ==
  /\ [](\A i \in Instances :
          pc[i] = "returned" => NewlinesInParens(constructor(src).input))
  /\ [][\A i \in Instances :
          (steps'[i] # steps[i] /\ lx[i].input # <<>> /\ lx[i].input[1] = NL) =>
            /\ last'[i] = "fail"
            /\ pc'[i] = "thrown"
            /\ ret'[i] = <<"Unexpected text">> \o Substr2(lx[i].input, 0, 5)]_vars

\* the lex of a line followed by a newline and more has thrown at the
\* newline, after a token of the first line
C32_Witness ==
  \E i \in Instances :
    /\ pc[i] = "thrown"
    /\ last[i] = "fail"
    /\ lx[i].tokens # <<>>
    /\ lx[i].input # <<>>
    /\ lx[i].input[1] = NL
    /\ Len(lx[i].input) >= 2

\* the line begins with the keyword kw, a blank and an identifier
KeywordLine(s, kw) ==
  /\ StartsWith(s, kw \o <<" ">>)
  /\ RunLen(s, Len(kw) + 2, Identifier) >= 1

\* the identifier that directly follows the keyword kw of the line
NameAfter(s, kw) ==
  SubSeq(s, Len(kw) + 2, Len(kw) + 1 + RunLen(s, Len(kw) + 2, Identifier))

\* the name of the Symbols is the identifier after the keyword of the line
\* of the call, set by a continuation pass
NamedAfterKeyword(kw) ==
  /\ js.passes >= 2
  /\ KeywordLine(src, kw)
  /\ js.tokens.type = kw
  /\ js.tokens.name = NameAfter(src, kw)

\* C33: once a continuation pass of JavaScript.tokenize has set the name to
\* the identifier that directly follows the function or class keyword of
\* the line, no later pass of the call changes it, and the call returns that
\* name.
C33_NameAfterKeyword ==
  [][\A kw \in {FunctionKw, ClassKw} :
       (js.pc = "pass" /\ js'.passes = js.passes + 1 /\ NamedAfterKeyword(kw)) =>
         js'.tokens.name = NameAfter(src, kw)]_vars

\* C34: in the C parser, once the type of the Symbols is Function, no step
\* on a later token of the line changes the type or the name; a class
\* keyword in the parameter list does not make the declaration a Class.
C34_FunctionStays ==
  [][(NextC /\ cp.st.symbols.type = "Function") =>
       /\ cp'.st.symbols.type = "Function"
       /\ cp'.st.symbols.name = cp.st.symbols.name]_vars

====
